---- MODULE Spec2Model ----
(***************************************************************************)
(* Charity donation platform backend (Go, net/http + PostgreSQL).          *)
(*                                                                         *)
(* The relational store is the only shared state.  Every HTTP request is   *)
(* served by its own goroutine; a request is a process whose steps are the *)
(* SQL statements its handler issues, so two requests interleave at        *)
(* statement granularity.  Money is DECIMAL(15,2) in the store and is      *)
(* modelled in hundredths of a currency unit (1000 = 10.00).               *)
(***************************************************************************)
EXTENDS Integers, FiniteSets, Sequences, TLC

VARIABLES
    verifications,  \* table verifications: id -> row
    posts,          \* table posts:         id -> row
    donations,      \* table donations:     id -> row
    ratings,        \* table ratings:       user_id -> row (user_id UNIQUE)
    users,          \* table users:         id -> row (phone UNIQUE)
    media,          \* table post_media:    id -> row
    chats,          \* table chats:         id -> row (UNIQUE(post_id, helper_id))
    messages,       \* table messages:      id -> row
    seq,            \* BIGSERIAL sequences, next value per table
    clock,          \* value NOW() returns
    pc,             \* per request goroutine: the statement it is about to run
    loc,            \* per request goroutine: the handler's local variables
    resp            \* per request goroutine: the response written last

vars == <<verifications, posts, donations, ratings, users, media, chats,
          messages, seq, clock, pc, loc, resp>>

----------------------------------------------------------------------------
(* Bounds of the model *)

MaxClock == 2
MaxPosts == 2
MaxDonations == 1
MaxTotal == 500
MaxRated == 3
MaxPoints == 6000
MaxUsers == 5
MaxMedia == 1
MaxMessages == 1
MaxChats == 3

(* Program constants *)

Tier1 == 5
Tier2 == 501
Tier3 == 2501
Tier4 == 5501

Null == 0

\* a nil *string, SQL NULL in a text column
NoString == ""

\* a nil *string where the string is a URL, SQL NULL in a column of URLs
\* (a URL is a sequence of tokens, see Object storage)
NoURL == <<>>

Users == {1, 2, 3}
Procs == {1, 2}

\* users.role: DEFAULT 'user'; the admin role is granted out of band.
\* The token carries the role (Claims.Role) and the middleware puts it
\* into the request context.
RoleOf(u) == IF u = 1 THEN "admin" ELSE "user"

\* id, status, amount, req: the request's path and body; donation, rating,
\* post: rows the handler fetched; out, list: the positions of the response
\* body.
NoLoc ==
    [op |-> "none", user |-> Null, role |-> "", id |-> Null, status |-> "",
     amount |-> Null, donation |-> Null, rating |-> Null, storeErr |-> FALSE,
     post |-> Null, req |-> Null, out |-> Null, list |-> <<>>,
     created |-> Null]

RowIDs(table) == DOMAIN table

----------------------------------------------------------------------------
(* Users *)

\* A phone number is a sequence of characters.
PhoneOf(u) == [i \in 1..11 |-> IF i < 11 THEN "9" ELSE <<"1", "2", "3", "4">>[u]]

\* The same number written with separators: 9 (999) 999-9999n
Separated(phone) ==
    <<phone[1], " ", "(">> \o SubSeq(phone, 2, 4) \o <<")", " ">> \o
    SubSeq(phone, 5, 7) \o <<"-">> \o SubSeq(phone, 8, Len(phone))

\* The accounts the tokens of Users were issued for.
RegisteredUsers ==
    [u \in Users |-> [phone |-> PhoneOf(u), role |-> RoleOf(u), photo_url |-> <<>>]]

----------------------------------------------------------------------------
(* Request bookkeeping *)

Idle(p) == pc[p] \in {"idle", "done"}

Start(p, op, actor) ==
    [NoLoc EXCEPT !.op = op, !.user = actor, !.role = RoleOf(actor)]

\* WriteError / WriteJSON: the handler returns after writing the response;
\* the rows it fetched go out of scope.
Finish(p, code, l) ==
    /\ pc' = [pc EXCEPT ![p] = "done"]
    /\ resp' = [resp EXCEPT ![p] = code]
    /\ loc' = [loc EXCEPT ![p] = [l EXCEPT !.donation = Null, !.rating = Null,
                                            !.post = Null, !.req = Null]]

Goto(p, label, l) ==
    /\ pc' = [pc EXCEPT ![p] = label]
    /\ loc' = [loc EXCEPT ![p] = l]
    /\ UNCHANGED resp

----------------------------------------------------------------------------
(* Pagination *)

(* A query value is the sequence of its characters; <<>> is an absent      *)
(* parameter.                                                              *)

Digits == {"0", "1", "2", "3", "4", "5", "6", "7", "8", "9"}

DigitValue(c) ==
    CASE c = "0" -> 0 [] c = "1" -> 1 [] c = "2" -> 2 [] c = "3" -> 3
      [] c = "4" -> 4 [] c = "5" -> 5 [] c = "6" -> 6 [] c = "7" -> 7
      [] c = "8" -> 8 [] c = "9" -> 9

\* the value of a sequence of digits
RECURSIVE Decimal(_)
Decimal(s) ==
    IF s = <<>> THEN 0
    ELSE 10 * Decimal(SubSeq(s, 1, Len(s) - 1)) + DigitValue(s[Len(s)])

\* page, _ := strconv.Atoi(...): an optional sign and digits; the error is
\* dropped, so every other text counts as 0.
Atoi(s) ==
    LET signed == Len(s) > 0 /\ s[1] \in {"-", "+"}
        digits == IF signed THEN Tail(s) ELSE s
    IN  IF digits = <<>> \/ \E i \in 1..Len(digits) : digits[i] \notin Digits
        THEN 0
        ELSE IF s[1] = "-" THEN 0 - Decimal(digits) ELSE Decimal(digits)

\* if page < 1 { page = 1 }
PageParam(query) == IF Atoi(query) < 1 THEN 1 ELSE Atoi(query)

\* if limit < 1 { limit = default }: GetVerifications, GetPosts,
\* GetDonations (default 20) and GetRatings (default 50)
LimitParam(query, default) == IF Atoi(query) < 1 THEN default ELSE Atoi(query)

\* GetMessages: default 50 and if limit > 100 { limit = 100 }
LimitParamCapped(query) ==
    IF LimitParam(query, 50) > 100 THEN 100 ELSE LimitParam(query, 50)

\* totalPages := (total + limit - 1) / limit and the PaginationResponse
PaginationResponse(page, limit, total) ==
    [page |-> page, limit |-> limit, total |-> total,
     total_pages |-> (total + limit - 1) \div limit]

\* no pagination: the request was refused before the handler
NoPage == [page |-> 0, limit |-> 0, total |-> 0, total_pages |-> 0]

\* LIMIT limit OFFSET (page-1)*limit on the ordered rows
PageOf(rows, page, limit) ==
    LET offset == (page - 1) * limit
    IN  SubSeq(rows, offset + 1,
               IF offset + limit < Len(rows) THEN offset + limit ELSE Len(rows))

\* ids in ascending order; Reverse gives ORDER BY created_at DESC for rows
\* created one after the other
RECURSIVE Ascending(_)
Ascending(ids) ==
    IF ids = {} THEN <<>>
    ELSE LET m == CHOOSE i \in ids : \A j \in ids : i <= j
         IN  <<m>> \o Ascending(ids \ {m})

Reverse(rows) == [i \in 1..Len(rows) |-> rows[Len(rows) + 1 - i]]

----------------------------------------------------------------------------
(* Authentication *)

\* cfg.JWTSecret
JWTSecret == "secret"

\* a token without an exp claim
NoExp == 0

\* GenerateToken: jwt.NewWithClaims(jwt.SigningMethodHS256, claims) signed
\* with cfg.JWTSecret.  A token string is modelled by what a parser reads
\* off it: whether it has the three segments of a JWT, the alg of its
\* header, the key its signature was made with and its claims.
GenerateToken(userID, role, exp) ==
    [wellFormed |-> TRUE, alg |-> "HS256", key |-> JWTSecret, exp |-> exp,
     user_id |-> userID, role |-> role]

\* the signing methods of type *jwt.SigningMethodHMAC
SigningMethodHMAC == {"HS256", "HS384", "HS512"}

\* ExtractTokenFromHeader: the header is a sequence of tokens, "Bearer "
\* being <<"Bearer", " ">>; the token string is what follows the prefix.
ExtractTokenFromHeader(authHeader) ==
    IF authHeader = <<>>
    THEN [err |-> TRUE, token |-> <<>>]
    ELSE IF Len(authHeader) < 2 \/ SubSeq(authHeader, 1, 2) # <<"Bearer", " ">>
    THEN [err |-> TRUE, token |-> <<>>]
    ELSE [err |-> FALSE, token |-> SubSeq(authHeader, 3, Len(authHeader))]

\* mutant: a token is still accepted at the instant of its exp claim
ValidateToken_ExpiryInclusive(tokenString) ==
    IF Len(tokenString) # 1 \/ ~tokenString[1].wellFormed
    THEN [err |-> TRUE, UserID |-> Null, Role |-> ""]
    ELSE LET token == tokenString[1]
         IN  IF token.alg \notin SigningMethodHMAC
             THEN [err |-> TRUE, UserID |-> Null, Role |-> ""]
             ELSE IF token.key # JWTSecret
             THEN [err |-> TRUE, UserID |-> Null, Role |-> ""]
             ELSE IF token.exp # NoExp /\ ~(clock <= token.exp)
             THEN [err |-> TRUE, UserID |-> Null, Role |-> ""]
             ELSE [err |-> FALSE, UserID |-> token.user_id, Role |-> token.role]

\* ValidateToken: jwt.ParseWithClaims parses the string, asks the key
\* function for the key (an error unless the method is HMAC), verifies the
\* signature with cfg.JWTSecret and validates the claims: an exp claim, when
\* present, must lie after time.Now().
ValidateToken(tokenString) ==
    IF Len(tokenString) # 1 \/ ~tokenString[1].wellFormed
    THEN [err |-> TRUE, UserID |-> Null, Role |-> ""]
    ELSE LET token == tokenString[1]
         IN  IF token.alg \notin SigningMethodHMAC
             THEN [err |-> TRUE, UserID |-> Null, Role |-> ""]
             ELSE IF token.key # JWTSecret
             THEN [err |-> TRUE, UserID |-> Null, Role |-> ""]
             ELSE IF token.exp # NoExp /\ ~(clock < token.exp)
             THEN [err |-> TRUE, UserID |-> Null, Role |-> ""]
             ELSE [err |-> FALSE, UserID |-> token.user_id, Role |-> token.role]

\* JWTAuthMiddleware: the values it puts into the request context under
\* UserIDKey and UserRoleKey, or err when it answers 401 itself
JWTAuthMiddleware(authHeader) ==
    LET extracted == ExtractTokenFromHeader(authHeader)
    IN  IF extracted.err
        THEN [err |-> TRUE, UserID |-> Null, Role |-> ""]
        ELSE ValidateToken(extracted.token)

\* JWTAuthMiddleware: WriteError(w, NewUnauthorizedError(...)) and return;
\* next.ServeHTTP is not called
Unauthorized(p) ==
    /\ Idle(p)
    /\ Finish(p, "Unauthorized", [NoLoc EXCEPT !.op = "JWTAuthMiddleware"])
    /\ UNCHANGED <<verifications, posts, donations, ratings, users, media,
                   chats, messages, seq, clock>>

----------------------------------------------------------------------------
(* Registration *)

\* FormatPhone: strings.ReplaceAll of " ", "-", "(" and ")" by ""
FormatPhone(phone) ==
    SelectSeq(phone, LAMBDA c : c \notin {" ", "-", "(", ")"})

\* ValidatePhoneNumber: the formatted number has 10 to 20 characters
ValidatePhoneNumber(phone) ==
    ~(Len(FormatPhone(phone)) < 10 \/ Len(FormatPhone(phone)) > 20)

\* users.phone VARCHAR(20) UNIQUE NOT NULL
PhoneTaken(phone) == \E i \in RowIDs(users) : users[i].phone = phone

\* Handlers.Register (public route).  valid = FALSE stands for a body that
\* fails the decoding or ValidateStruct.
Register(p, phone, valid) ==
    /\ Idle(p)
    /\ LET l == [NoLoc EXCEPT !.op = "Register"]
       IN  IF ~valid \/ ~ValidatePhoneNumber(phone)
           THEN /\ Finish(p, "Validation", l)
                /\ UNCHANGED <<users, seq>>
           ELSE IF PhoneTaken(FormatPhone(phone))
           THEN \* DB.CreateUser: pq error 23505 becomes NewConflictError
                /\ Finish(p, "Conflict", l)
                /\ seq' = [seq EXCEPT !.users = @ + 1]
                /\ UNCHANGED users
           ELSE /\ users' = users @@
                    (seq.users :> [phone |-> FormatPhone(phone), role |-> "user",
                                   photo_url |-> <<>>])
                /\ seq' = [seq EXCEPT !.users = @ + 1]
                /\ Finish(p, "Created", l)
    /\ UNCHANGED <<verifications, posts, donations, ratings, media, chats,
                   messages, clock>>

----------------------------------------------------------------------------
(* Verifications *)

\* mutant: the lookup compares the row id with the user id
GetVerificationByUserID_ByID(userID) ==
    {i \in RowIDs(verifications) : i = userID}

\* SELECT ... FROM verifications WHERE user_id = $1
GetVerificationByUserID(userID) ==
    {i \in RowIDs(verifications) : verifications[i].user_id = userID}

\* verifications.user_id BIGINT UNIQUE NOT NULL
VerificationUserIDTaken(userID) ==
    \E i \in RowIDs(verifications) : verifications[i].user_id = userID

\* mutant: the count ignores the status
IsUserVerified_AnyStatus(userID) ==
    Cardinality({i \in RowIDs(verifications) :
                    verifications[i].user_id = userID}) > 0

\* SELECT COUNT(*) FROM verifications WHERE user_id = $1 AND status = 'approved'
IsUserVerified(userID) ==
    Cardinality({i \in RowIDs(verifications) :
                    /\ verifications[i].user_id = userID
                    /\ verifications[i].status = "approved"}) > 0

\* UPDATE verifications SET status, reviewed_at = NOW(), reviewed_by WHERE id = $4
UpdateVerificationStatus(id, status, reviewedBy) ==
    [i \in RowIDs(verifications) |->
        IF i = id
        THEN [verifications[i] EXCEPT !.status = status,
                                      !.reviewed_at = clock,
                                      !.reviewed_by = reviewedBy]
        ELSE verifications[i]]

\* Handlers.CreateVerification, first statement: the existence pre-check.
CreateVerificationCheck(p, actor) ==
    /\ Idle(p)
    /\ IF GetVerificationByUserID(actor) # {}
       THEN Finish(p, "Conflict", Start(p, "CreateVerification", actor))
       ELSE Goto(p, "cv_insert", Start(p, "CreateVerification", actor))
    /\ UNCHANGED <<verifications, posts, donations, ratings, seq, clock, users, media, chats, messages>>

\* Handlers.CreateVerification, form validation and the INSERT.
\* valid = FALSE stands for a form that fails ParseMultipartForm,
\* ValidateStruct, the date parsing or the file checks.
CreateVerificationInsert(p, valid) ==
    /\ pc[p] = "cv_insert"
    /\ IF ~valid
       THEN /\ Finish(p, "Validation", loc[p])
            /\ UNCHANGED <<verifications, seq>>
       ELSE IF VerificationUserIDTaken(loc[p].user)
       THEN \* user_id UNIQUE: pq error 23505 is returned unwrapped and
            \* WriteError maps every non-AppError to Internal.  The
            \* sequence value is consumed nevertheless.
            /\ Finish(p, "Internal", loc[p])
            /\ seq' = [seq EXCEPT !.verifications = @ + 1]
            /\ UNCHANGED verifications
       ELSE /\ verifications' = verifications @@
                (seq.verifications :>
                    [user_id |-> loc[p].user, status |-> "pending",
                     reviewed_at |-> Null, reviewed_by |-> Null])
            /\ seq' = [seq EXCEPT !.verifications = @ + 1]
            /\ Finish(p, "Created", loc[p])
    /\ UNCHANGED <<posts, donations, ratings, clock, users, media, chats, messages>>

\* mutant: every role passes
RoleMiddleware_AnyRole(userRole, roles) == TRUE

\* RoleMiddleware(roles...): the role of the request context is one of roles
RoleMiddleware(userRole, roles) == userRole \in roles

\* RoleMiddleware("admin") followed by Handlers.GetVerifications, a listing.
GetVerifications(p, actor, pageQuery, limitQuery) ==
    /\ Idle(p)
    /\ LET l == [Start(p, "GetVerifications", actor) EXCEPT !.out = NoPage]
           page == PageParam(pageQuery)
           limit == LimitParam(limitQuery, 20)
           rows == Reverse(Ascending(RowIDs(verifications)))
       IN  IF ~RoleMiddleware(l.role, {"admin"})
           THEN Finish(p, "Forbidden", l)
           ELSE Finish(p, "OK",
                       [l EXCEPT !.list = PageOf(rows, page, limit),
                                 !.out = PaginationResponse(page, limit, Len(rows))])
    /\ UNCHANGED <<verifications, posts, donations, ratings, users, media,
                   chats, messages, seq, clock>>

\* RoleMiddleware("admin") followed by Handlers.UpdateVerification.
\* The handler issues one UPDATE keyed by id alone; the following
\* GetVerificationByUserID(0) only shapes the response.
UpdateVerification(p, actor, id, status) ==
    /\ Idle(p)
    /\ LET l == Start(p, "UpdateVerification", actor)
       IN  IF ~RoleMiddleware(l.role, {"admin"})
           THEN /\ Finish(p, "Forbidden", l)
                /\ UNCHANGED verifications
           ELSE IF status \notin {"approved", "rejected"}
           THEN /\ Finish(p, "Validation", l)
                /\ UNCHANGED verifications
           ELSE /\ verifications' = UpdateVerificationStatus(id, status, actor)
                /\ Finish(p, "OK", l)
    /\ UNCHANGED <<posts, donations, ratings, seq, clock, users, media, chats, messages>>

----------------------------------------------------------------------------
(* Posts *)

InFlight(label) == Cardinality({q \in Procs : pc[q] = label})

\* INSERT INTO posts (user_id, title, description, amount, recipient, bank,
\* phone): the row of a valid form; collected DEFAULT 0.  title stands for
\* the text columns, amount for the target sum.
NewPost(userID) ==
    [user_id |-> userID, title |-> "help", amount |-> 100000, collected |-> 0]

\* Handlers.CreatePost, first statement: the verification gate.
CreatePostCheck(p, actor) ==
    /\ Idle(p)
    /\ seq.posts + InFlight("cp_insert") <= MaxPosts
    /\ IF ~IsUserVerified(actor)
       THEN Finish(p, "Forbidden", Start(p, "CreatePost", actor))
       ELSE Goto(p, "cp_insert", Start(p, "CreatePost", actor))
    /\ UNCHANGED <<verifications, posts, donations, ratings, seq, clock, users, media, chats, messages>>

\* Handlers.CreatePost, form validation and DB.CreatePost.  files are the
\* "media" parts of the form, in order: TRUE is a file that passes the
\* checks and is uploaded, FALSE one the loop skips.
CreatePostInsert(p, valid, files) ==
    /\ pc[p] = "cp_insert"
    /\ IF ~valid
       THEN /\ Finish(p, "Validation", loc[p])
            /\ UNCHANGED <<posts, seq>>
       ELSE /\ posts' = posts @@
                (seq.posts :> NewPost(loc[p].user))
            /\ seq' = [seq EXCEPT !.posts = @ + 1]
            /\ IF files = <<>>
               THEN Finish(p, "Created", loc[p])
               ELSE Goto(p, "cp_media",
                         [loc[p] EXCEPT !.id = seq.posts,
                                        !.req = [files |-> files, i |-> 0]])
    /\ UNCHANGED <<verifications, donations, ratings, clock, users, media, chats, messages>>

\* Handlers.CreatePost: one round of the loop over the media files, for
\* i, fileHeader := range files.  A file that passes is stored by
\* h.db.CreatePostMedia(post.ID, mediaURL, mediaType, i), whose error is
\* dropped; post_media.post_id references posts.
CreatePostMediaLoop(p) ==
    /\ pc[p] = "cp_media"
    /\ LET l == loc[p]
           i == l.req.i
           next == [l EXCEPT !.req.i = i + 1]
       IN  IF i >= Len(l.req.files) \/ i >= 10
           THEN /\ Finish(p, "Created", l)
                /\ UNCHANGED <<media, seq>>
           ELSE IF ~l.req.files[i + 1]
           THEN /\ Goto(p, "cp_media", next)
                /\ UNCHANGED <<media, seq>>
           ELSE /\ media' = IF l.id \in RowIDs(posts)
                             THEN media @@
                                  (seq.media :> [post_id |-> l.id, order_index |-> i])
                             ELSE media
                /\ seq' = [seq EXCEPT !.media = @ + 1]
                /\ Goto(p, "cp_media", next)
    /\ UNCHANGED <<verifications, posts, donations, ratings, users, chats,
                   messages, clock>>

\* json.Decoder into UpdatePostRequest: the struct has the six editable
\* fields (title and amount in the model); any other key of the body, such
\* as collected, is dropped.  NoString and Null are keys the body does not
\* carry.
DecodeUpdatePostRequest(body) == [title |-> body.title, amount |-> body.amount]

\* mutant: the amount of the request is written to collected
UpdatePost_AmountIntoCollected(id, title, amount) ==
    [i \in RowIDs(posts) |->
        IF i = id /\ (title # NoString \/ amount # Null)
        THEN [posts[i] EXCEPT !.title = IF title # NoString THEN title ELSE @,
                              !.collected = IF amount # Null THEN amount ELSE @]
        ELSE posts[i]]

\* DB.UpdatePost: UPDATE posts SET <fields present> WHERE id; no statement
\* when no field is present
UpdatePost(id, title, amount) ==
    [i \in RowIDs(posts) |->
        IF i = id /\ (title # NoString \/ amount # Null)
        THEN [posts[i] EXCEPT !.title = IF title # NoString THEN title ELSE @,
                              !.amount = IF amount # Null THEN amount ELSE @]
        ELSE posts[i]]

\* SELECT ... FROM post_media WHERE post_id = $1
GetPostMedia(postID) == {m \in RowIDs(media) : media[m].post_id = postID}

\* DELETE FROM table: the table without the rows whose ids are in gone
DeleteRows(table, gone) == [i \in RowIDs(table) \ gone |-> table[i]]

\* Handlers.GetPosts (public route) without the status and user_id filters
GetPosts(p, pageQuery, limitQuery) ==
    /\ Idle(p)
    /\ LET page == PageParam(pageQuery)
           limit == LimitParam(limitQuery, 20)
           rows == Reverse(Ascending(RowIDs(posts)))
       IN  Finish(p, "OK",
                  [NoLoc EXCEPT !.op = "GetPosts",
                                !.list = PageOf(rows, page, limit),
                                !.out = PaginationResponse(page, limit, Len(rows))])
    /\ UNCHANGED <<verifications, posts, donations, ratings, users, media,
                   chats, messages, seq, clock>>

\* mutant: an admin counts as the owner
IsPostOwner_OrAdmin(post, userID) == post.user_id = userID \/ RoleOf(userID) = "admin"

\* the handlers' check post.UserID != userID
IsPostOwner(post, userID) == post.user_id = userID

\* Handlers.UpdatePost: h.db.GetPostByID, the owner check, decoding and
\* ValidateStruct (amount: omitempty,gt=0)
UpdatePostGet(p, actor, id, body) ==
    /\ Idle(p)
    /\ LET l == [Start(p, "UpdatePost", actor) EXCEPT !.id = id]
           req == DecodeUpdatePostRequest(body)
       IN  IF id \notin RowIDs(posts)
           THEN Finish(p, "NotFound", l)
           ELSE IF ~IsPostOwner(posts[id], actor)
           THEN Finish(p, "Forbidden", l)
           ELSE IF req.amount # Null /\ ~(req.amount > 0)
           THEN Finish(p, "Validation", l)
           ELSE Goto(p, "up_update", [l EXCEPT !.req = req])
    /\ UNCHANGED <<verifications, posts, donations, ratings, users, media,
                   chats, messages, seq, clock>>

\* Handlers.UpdatePost: h.db.UpdatePost(postID, req.Title, ..., req.Amount, ...)
UpdatePostWrite(p) ==
    /\ pc[p] = "up_update"
    /\ posts' = UpdatePost(loc[p].id, loc[p].req.title, loc[p].req.amount)
    /\ Goto(p, "up_reply", loc[p])
    /\ UNCHANGED <<verifications, donations, ratings, users, media, chats,
                   messages, seq, clock>>

\* Handlers.UpdatePost: post, _ = h.db.GetPostByID(postID) and the response.
\* When the post is gone post is nil, post.ID panics and RecoverMiddleware
\* answers Internal.
UpdatePostReply(p) ==
    /\ pc[p] = "up_reply"
    /\ IF loc[p].id \in RowIDs(posts)
       THEN Finish(p, "OK", loc[p])
       ELSE Finish(p, "Internal", loc[p])
    /\ UNCHANGED <<verifications, posts, donations, ratings, users, media,
                   chats, messages, seq, clock>>

\* Handlers.DeletePost: h.db.GetPostByID and the owner check
DeletePostGet(p, actor, id) ==
    /\ Idle(p)
    /\ LET l == [Start(p, "DeletePost", actor) EXCEPT !.id = id]
       IN  IF id \notin RowIDs(posts)
           THEN Finish(p, "NotFound", l)
           ELSE IF ~IsPostOwner(posts[id], actor)
           THEN Finish(p, "Forbidden", l)
           ELSE Goto(p, "dp_delete", l)
    /\ UNCHANGED <<verifications, posts, donations, ratings, users, media,
                   chats, messages, seq, clock>>

\* Handlers.DeletePost: DELETE FROM posts WHERE id = $1.  post_media,
\* donations and chats reference posts ON DELETE CASCADE, messages
\* reference chats ON DELETE CASCADE.
DeletePostExec(p) ==
    /\ pc[p] = "dp_delete"
    /\ LET id == loc[p].id
           chatsGone == {c \in RowIDs(chats) : chats[c].post_id = id}
       IN  /\ posts' = DeleteRows(posts, {id})
           /\ media' = DeleteRows(media, GetPostMedia(id))
           /\ donations' = DeleteRows(donations,
                                      {d \in RowIDs(donations) : donations[d].post_id = id})
           /\ chats' = DeleteRows(chats, chatsGone)
           /\ messages' = DeleteRows(messages,
                                     {m \in RowIDs(messages) : messages[m].chat_id \in chatsGone})
    /\ Finish(p, "NoContent", loc[p])
    /\ UNCHANGED <<verifications, ratings, users, seq, clock>>

\* Handlers.AddPostMedia: h.db.GetPostByID and the owner check
AddPostMediaGet(p, actor, id) ==
    /\ Idle(p)
    /\ LET l == [Start(p, "AddPostMedia", actor) EXCEPT !.id = id]
       IN  IF id \notin RowIDs(posts)
           THEN Finish(p, "NotFound", l)
           ELSE IF ~IsPostOwner(posts[id], actor)
           THEN Finish(p, "Forbidden", l)
           ELSE Goto(p, "am_count", l)
    /\ UNCHANGED <<verifications, posts, donations, ratings, users, media,
                   chats, messages, seq, clock>>

\* Handlers.AddPostMedia: the form and file checks (valid = FALSE: one of
\* them fails) and orderIndex := len(h.db.GetPostMedia(postID))
AddPostMediaCount(p, valid) ==
    /\ pc[p] = "am_count"
    /\ IF ~valid
       THEN Finish(p, "Validation", loc[p])
       ELSE Goto(p, "am_insert",
                 [loc[p] EXCEPT !.req = [order_index |->
                                            Cardinality(GetPostMedia(loc[p].id))]])
    /\ UNCHANGED <<verifications, posts, donations, ratings, users, media,
                   chats, messages, seq, clock>>

\* Handlers.AddPostMedia: UploadPostMedia (ok = FALSE: the upload fails)
\* and h.db.CreatePostMedia; post_media.post_id references posts.
AddPostMediaInsert(p, ok) ==
    /\ pc[p] = "am_insert"
    /\ LET l == loc[p]
       IN  IF ~ok
           THEN /\ Finish(p, "Internal", l)
                /\ UNCHANGED <<media, seq>>
           ELSE IF l.id \notin RowIDs(posts)
           THEN /\ Finish(p, "Internal", l)
                /\ seq' = [seq EXCEPT !.media = @ + 1]
                /\ UNCHANGED media
           ELSE /\ media' = media @@
                    (seq.media :> [post_id |-> l.id,
                                   order_index |-> l.req.order_index])
                /\ seq' = [seq EXCEPT !.media = @ + 1]
                /\ Finish(p, "Created", l)
    /\ UNCHANGED <<verifications, posts, donations, ratings, users, chats,
                   messages, clock>>

\* Handlers.DeletePostMedia: h.db.GetPostByID(postID) and the owner check
DeletePostMediaGet(p, actor, id, mediaID) ==
    /\ Idle(p)
    /\ LET l == [Start(p, "DeletePostMedia", actor) EXCEPT !.id = id]
       IN  IF id \notin RowIDs(posts)
           THEN Finish(p, "NotFound", l)
           ELSE IF ~IsPostOwner(posts[id], actor)
           THEN Finish(p, "Forbidden", l)
           ELSE Goto(p, "dm_delete", [l EXCEPT !.req = mediaID])
    /\ UNCHANGED <<verifications, posts, donations, ratings, users, media,
                   chats, messages, seq, clock>>

\* Handlers.DeletePostMedia: DELETE FROM post_media WHERE id = $1
DeletePostMediaExec(p) ==
    /\ pc[p] = "dm_delete"
    /\ media' = DeleteRows(media, {loc[p].req})
    /\ Finish(p, "NoContent", loc[p])
    /\ UNCHANGED <<verifications, posts, donations, ratings, users, chats,
                   messages, seq, clock>>

----------------------------------------------------------------------------
(* Object storage *)

(* A Go string that is taken apart by the program is a sequence of tokens  *)
(* in which every "/", ":" and file extension is a token of its own:       *)
(* "http://localhost:9000" is <<"http", ":", "/", "/", "localhost", ":",   *)
(* "9000">>.  The empty string is <<>>.                                     *)

\* strings.Contains
Contains(s, tok) == \E i \in 1..Len(s) : s[i] = tok

\* strings.HasPrefix
HasPrefix(s, prefix) ==
    Len(s) >= Len(prefix) /\ SubSeq(s, 1, Len(prefix)) = prefix

\* strings.Split
RECURSIVE Split(_, _)
Split(s, sep) ==
    IF ~Contains(s, sep)
    THEN <<s>>
    ELSE LET i == CHOOSE k \in 1..Len(s) :
                      s[k] = sep /\ \A j \in 1..(k - 1) : s[j] # sep
         IN  <<SubSeq(s, 1, i - 1)>> \o Split(SubSeq(s, i + 1, Len(s)), sep)

\* strings.Join
RECURSIVE Join(_, _)
Join(parts, sep) ==
    IF Len(parts) = 0 THEN <<>>
    ELSE IF Len(parts) = 1 THEN parts[1]
    ELSE parts[1] \o <<sep>> \o Join(Tail(parts), sep)

\* strings.ToLower on the tokens of a content type
ToLower(s) ==
    [i \in DOMAIN s |->
        CASE s[i] = "IMAGE" -> "image"
          [] s[i] = "JPEG" -> "jpeg"
          [] s[i] = "PNG" -> "png"
          [] OTHER -> s[i]]

BucketUserPhotos == <<"user-photos">>
BucketVerificationDocs == <<"verification-docs">>
BucketPostMedia == <<"post-media">>
BucketDonationReceipts == <<"donation-receipts">>
BucketChatAttachments == <<"chat-attachments">>

\* LoadConfig: MINIO_ENDPOINT and MINIO_USE_SSL left at their defaults
MinIOConfig == [Endpoint |-> <<"localhost", ":", "9000">>, UseSSL |-> FALSE]

\* getExtensionFromContentType
getExtensionFromContentType(contentType) ==
    LET ct == ToLower(contentType)
    IN  CASE Contains(ct, "jpeg") \/ Contains(ct, "jpg") -> ".jpg"
          [] Contains(ct, "png") -> ".png"
          [] Contains(ct, "webp") -> ".webp"
          [] Contains(ct, "mp4") -> ".mp4"
          [] Contains(ct, "webm") -> ".webm"
          [] Contains(ct, "pdf") -> ".pdf"
          [] OTHER -> ".bin"

\* UploadUserPhoto: the object key users/%d/photo%s
UploadUserPhoto(userID, contentType) ==
    <<"users", "/", ToString(userID), "/", "photo",
      getExtensionFromContentType(contentType)>>

\* UploadChatAttachment: the object key chats/%d/messages/%d/attachment%s
UploadChatAttachment(chatID, messageID, contentType) ==
    <<"chats", "/", ToString(chatID), "/", "messages", "/",
      ToString(messageID), "/", "attachment",
      getExtensionFromContentType(contentType)>>

\* UploadDonationReceipt: the object key donations/%d/receipt%s
UploadDonationReceipt(donationID, contentType) ==
    <<"donations", "/", ToString(donationID), "/", "receipt",
      getExtensionFromContentType(contentType)>>

\* GetObjectURL: %s://%s/%s/%s of the scheme, the endpoint up to its first
\* ":", the bucket and the object key
GetObjectURL(cfg, bucket, objectKey) ==
    LET scheme == IF cfg.UseSSL THEN <<"https">> ELSE <<"http">>
        endpoint == IF Contains(cfg.Endpoint, ":")
                    THEN Split(cfg.Endpoint, ":")[1]
                    ELSE cfg.Endpoint
    IN  scheme \o <<":", "/", "/">> \o endpoint \o <<"/">> \o bucket
               \o <<"/">> \o objectKey

\* the bucket names ConvertMinIOURLToBackendURL looks for
Buckets ==
    {BucketUserPhotos, BucketVerificationDocs, BucketPostMedia,
     BucketDonationReceipts, BucketChatAttachments}

\* mutant: the parts of index below 3 are not skipped
ConvertMinIOURLToBackendURL_NoHostSkip(url) ==
    IF url = <<>> THEN url
    ELSE IF HasPrefix(url, <<"/", "files", "/">>) THEN url
    ELSE LET parts == Split(url, "/")
             Skipped(i) ==
                 \/ parts[i] = <<>>
                 \/ parts[i] = <<"http", ":">>
                 \/ parts[i] = <<"https", ":">>
                 \/ Contains(parts[i], ":")
             IsBucket(i) == ~Skipped(i) /\ parts[i] \in Buckets
             found == {i \in 1..Len(parts) : IsBucket(i)}
         IN  IF found # {}
             THEN LET bucketIndex == CHOOSE i \in found : \A j \in found : i <= j
                  IN  <<"/", "files", "/">> \o parts[bucketIndex] \o <<"/">>
                          \o Join(SubSeq(parts, bucketIndex + 1, Len(parts)), "/")
             ELSE url

\* ConvertMinIOURLToBackendURL.  parts[i] is the source's parts[i-1]: the
\* loop skips empty parts, the protocol, parts with a ":" and the parts of
\* index below 3, and stops at the first remaining part that is a bucket.
ConvertMinIOURLToBackendURL(url) ==
    IF url = <<>> THEN url
    ELSE IF HasPrefix(url, <<"/", "files", "/">>) THEN url
    ELSE LET parts == Split(url, "/")
             Skipped(i) ==
                 \/ parts[i] = <<>>
                 \/ parts[i] = <<"http", ":">>
                 \/ parts[i] = <<"https", ":">>
                 \/ Contains(parts[i], ":")
                 \/ i - 1 < 3
             IsBucket(i) == ~Skipped(i) /\ parts[i] \in Buckets
             found == {i \in 1..Len(parts) : IsBucket(i)}
         IN  IF found # {}
             THEN LET bucketIndex == CHOOSE i \in found : \A j \in found : i <= j
                  IN  <<"/", "files", "/">> \o parts[bucketIndex] \o <<"/">>
                          \o Join(SubSeq(parts, bucketIndex + 1, Len(parts)), "/")
             ELSE url

----------------------------------------------------------------------------
(* Profile photo *)

\* ValidateImageFile: the allowed file-name extensions
ImageExts == {".jpg", ".jpeg", ".png", ".webp"}

\* Handlers.UploadPhoto: the checks of the form file and UploadUserPhoto.
\* cfg is h.cfg.MinIOConfig: it is fixed for a deployment; the model lets
\* every request see any configuration, which covers every deployment.
\* uploaded = FALSE stands for a failing PutObject.
UploadPhoto(p, cfg, actor, photo, uploaded) ==
    /\ Idle(p)
    /\ LET l == [Start(p, "UploadPhoto", actor) EXCEPT !.out = <<>>,
                    !.req = [objectKey |-> <<>>, photoURL |-> <<>>]]
       IN  IF photo.ext \notin ImageExts
           THEN Finish(p, "UnsupportedMedia", l)
           ELSE IF ~uploaded
           THEN Finish(p, "Internal", l)
           ELSE LET objectKey == UploadUserPhoto(actor, photo.contentType)
                    photoURL == GetObjectURL(cfg, BucketUserPhotos, objectKey)
                IN  Goto(p, "up_update",
                         [l EXCEPT !.req = [objectKey |-> objectKey,
                                            photoURL |-> photoURL]])
    /\ UNCHANGED <<verifications, posts, donations, ratings, users, media,
                   chats, messages, seq, clock>>

\* Handlers.UploadPhoto: h.db.UpdateUser(userID, nil, nil, nil, &photoURL)
\* and the response.  ok = FALSE stands for a failing statement.
UploadPhotoUpdate(p, ok) ==
    /\ pc[p] = "up_update"
    /\ IF ~ok
       THEN /\ Finish(p, "Internal", loc[p])
            /\ UNCHANGED users
       ELSE /\ users' = [i \in RowIDs(users) |->
                           IF i = loc[p].user
                           THEN [users[i] EXCEPT !.photo_url = loc[p].req.photoURL]
                           ELSE users[i]]
            /\ Finish(p, "OK",
                      [loc[p] EXCEPT !.out =
                          ConvertMinIOURLToBackendURL(loc[p].req.photoURL)])
    /\ UNCHANGED <<verifications, posts, donations, ratings, media, chats,
                   messages, seq, clock>>

\* Handlers.GetProfile: the user's row with the photo reference converted
GetProfile(p, actor) ==
    /\ Idle(p)
    /\ LET l == [Start(p, "GetProfile", actor) EXCEPT !.out = <<>>]
       IN  IF actor \notin RowIDs(users)
           THEN Finish(p, "NotFound", l)
           ELSE Finish(p, "OK",
                       [l EXCEPT !.out =
                           IF users[actor].photo_url # <<>>
                           THEN ConvertMinIOURLToBackendURL(users[actor].photo_url)
                           ELSE users[actor].photo_url])
    /\ UNCHANGED <<verifications, posts, donations, ratings, users, media,
                   chats, messages, seq, clock>>

----------------------------------------------------------------------------
(* Donations and ratings *)

\* mutant: rounds to the nearest unit instead of truncating
IntOf_Round(amount) == (amount + 50) \div 100

\* int(donation.Amount): conversion of a non-negative float64 truncates.
IntOf(amount) == amount \div 100

\* mutant: the thresholds are exclusive
RatingStatus_Exclusive(points) ==
    IF points > Tier4 THEN "Flaming Heart"
    ELSE IF points > Tier3 THEN "Benefactor"
    ELSE IF points > Tier2 THEN "Keeper of Hope"
    ELSE IF points > Tier1 THEN "Friend of the Platform"
    ELSE ""

\* DB.UpdateRating: the label computed from the points.  "" is SQL NULL;
\* the labels stand for the source's four Russian tier names, in
\* ascending order.
RatingStatus(points) ==
    IF points >= Tier4 THEN "Flaming Heart"
    ELSE IF points >= Tier3 THEN "Benefactor"
    ELSE IF points >= Tier2 THEN "Keeper of Hope"
    ELSE IF points >= Tier1 THEN "Friend of the Platform"
    ELSE ""

\* UPDATE donations SET status, confirmed_at = NOW(), confirmed_by WHERE id = $3
UpdateDonationStatus(id, status, confirmedBy) ==
    [i \in RowIDs(donations) |->
        IF i = id
        THEN [donations[i] EXCEPT !.status = status,
                                  !.confirmed_at = clock,
                                  !.confirmed_by = confirmedBy]
        ELSE donations[i]]

\* mutant: collected is overwritten instead of incremented
UpdatePostCollected_Overwrite(postID, amount) ==
    [i \in RowIDs(posts) |->
        IF i = postID
        THEN [posts[i] EXCEPT !.collected = amount]
        ELSE posts[i]]

\* UPDATE posts SET collected = collected + $1 WHERE id = $2
UpdatePostCollected(postID, amount) ==
    [i \in RowIDs(posts) |->
        IF i = postID
        THEN [posts[i] EXCEPT !.collected = @ + amount]
        ELSE posts[i]]

\* mutant: the label is not rewritten with the points
UpdateRating_KeepStatus(userID, points, totalDonated) ==
    [u \in RowIDs(ratings) |->
        IF u = userID
        THEN [ratings[u] EXCEPT !.points = points,
                                !.total_donated = totalDonated]
        ELSE ratings[u]]

\* UPDATE ratings SET points, total_donated, status WHERE user_id = $4
UpdateRating(userID, points, totalDonated) ==
    [u \in RowIDs(ratings) |->
        IF u = userID
        THEN [points |-> points, total_donated |-> totalDonated,
              status |-> RatingStatus(points)]
        ELSE ratings[u]]

\* ratings.user_id BIGINT UNIQUE NOT NULL
RatingUserIDTaken(userID) == userID \in RowIDs(ratings)

\* INSERT INTO ratings (user_id) VALUES ($1): column defaults
NewRating == [points |-> 0, total_donated |-> 0, status |-> ""]

\* A form value amount=x.yyy as the float64 strconv.ParseFloat returns, in
\* thousandths of a currency unit; Amount(h) is the value of h hundredths.
Amount(hundredths) == 10 * hundredths

\* The assignment of a float64 to a DECIMAL(15,2) column rounds to two
\* decimals, half away from zero: thousandths in, hundredths out.
ToDecimal(amount) ==
    IF amount >= 0 THEN (amount + 5) \div 10 ELSE -((-amount + 5) \div 10)

\* donations.amount: CHECK (amount > 0), evaluated on the stored value
DonationAmountCheck(stored) == stored > 0

\* ValidateDocumentFile: the allowed extensions of a file name
DocumentExts == {".pdf", ".jpg", ".jpeg", ".png"}

\* A file part of a multipart form, within the size limit: the extension
\* of its file name and its Content-Type header.  NoFile is a form without
\* the part.
NoFile == [present |-> FALSE, ext |-> "", contentType |-> <<>>]

\* Handlers.CreateDonation up to the INSERT: ValidateStruct (post_id
\* required, amount required and gt=0 on the float64), h.db.GetPostByID and
\* ValidateDocumentFile on the receipt part of the form.
CreateDonation(p, actor, postID, amount, receipt) ==
    /\ Idle(p)
    /\ LET l == [Start(p, "CreateDonation", actor)
                    EXCEPT !.id = postID, !.amount = amount, !.out = NoURL]
       IN  IF postID = Null \/ amount = 0 \/ ~(amount > 0)
           THEN Finish(p, "Validation", l)
           ELSE IF postID \notin RowIDs(posts)
           THEN Finish(p, "NotFound", l)
           ELSE IF receipt.present /\ receipt.ext \notin DocumentExts
           THEN Finish(p, "UnsupportedMedia", l)
           ELSE Goto(p, "cd_insert", [l EXCEPT !.req = [receipt |-> receipt]])
    /\ UNCHANGED <<verifications, posts, donations, ratings, seq, clock, users,
                   media, chats, messages>>

\* DB.CreateDonation: INSERT INTO donations (post_id, donor_id, amount,
\* receipt_url) with donation.ReceiptURL nil on both branches; status
\* DEFAULT 'pending'.  A violated foreign key or CHECK is returned as it
\* comes from the driver and WriteError answers Internal; the sequence
\* value is consumed nevertheless.
CreateDonationInsert(p) ==
    /\ pc[p] = "cd_insert"
    /\ LET l == loc[p]
           stored == ToDecimal(l.amount)
       IN  IF l.id \notin RowIDs(posts) \/ ~DonationAmountCheck(stored)
           THEN /\ Finish(p, "Internal", l)
                /\ UNCHANGED donations
           ELSE /\ donations' = donations @@
                    (seq.donations :>
                        [post_id |-> l.id, donor_id |-> l.user,
                         amount |-> stored, receipt_url |-> NoURL,
                         status |-> "pending",
                         confirmed_at |-> Null, confirmed_by |-> Null])
                /\ IF l.req.receipt.present
                   THEN Goto(p, "cd_upload", [l EXCEPT !.created = seq.donations])
                   ELSE Finish(p, "Created", [l EXCEPT !.created = seq.donations])
    /\ seq' = [seq EXCEPT !.donations = @ + 1]
    /\ UNCHANGED <<verifications, posts, ratings, clock, users, media, chats,
                   messages>>

\* Handlers.CreateDonation on the receipt branch: UploadDonationReceipt
\* (ok = FALSE: the upload fails) and donation.ReceiptURL = &receiptURL on
\* the struct the response is built from; no statement writes the URL to
\* the store.
CreateDonationUpload(p, ok) ==
    /\ pc[p] = "cd_upload"
    /\ IF ok
       THEN Finish(p, "Created",
                   [loc[p] EXCEPT !.out =
                       GetObjectURL(MinIOConfig, BucketDonationReceipts,
                                    UploadDonationReceipt(loc[p].created,
                                                          loc[p].req.receipt.contentType))])
       ELSE Finish(p, "Internal", loc[p])
    /\ UNCHANGED <<verifications, posts, donations, ratings, seq, clock, users,
                   media, chats, messages>>

\* Handlers.GetDonations (public route) without the post_id, donor_id and
\* status filters
GetDonations(p, pageQuery, limitQuery) ==
    /\ Idle(p)
    /\ LET page == PageParam(pageQuery)
           limit == LimitParam(limitQuery, 20)
           rows == Reverse(Ascending(RowIDs(donations)))
       IN  Finish(p, "OK",
                  [NoLoc EXCEPT !.op = "GetDonations",
                                !.list = PageOf(rows, page, limit),
                                !.out = PaginationResponse(page, limit, Len(rows))])
    /\ UNCHANGED <<verifications, posts, donations, ratings, users, media,
                   chats, messages, seq, clock>>

\* Handlers.GetDonation (public route): h.db.GetDonationByID and the
\* response, which embeds the row as it is stored
GetDonation(p, id) ==
    /\ Idle(p)
    /\ LET l == [NoLoc EXCEPT !.op = "GetDonation", !.id = id, !.out = NoURL]
       IN  IF id \notin RowIDs(donations)
           THEN Finish(p, "NotFound", l)
           ELSE Finish(p, "OK", [l EXCEPT !.out = donations[id].receipt_url])
    /\ UNCHANGED <<verifications, posts, donations, ratings, seq, clock, users,
                   media, chats, messages>>

\* The fields of a fetched donation row that the handler reads afterwards.
DonationRead(row) ==
    [post_id |-> row.post_id, donor_id |-> row.donor_id, amount |-> row.amount]

\* The fields of a fetched rating row that the handler reads afterwards.
RatingRead(row) ==
    [points |-> row.points, total_donated |-> row.total_donated]

\* Handlers.UpdateDonation: h.db.GetDonationByID(donationID)
UpdateDonationGet(p, actor, id, status) ==
    /\ Idle(p)
    /\ LET l == [Start(p, "UpdateDonation", actor)
                    EXCEPT !.id = id, !.status = status]
       IN  IF id \notin RowIDs(donations)
           THEN Finish(p, "NotFound", l)
           ELSE Goto(p, "ud_post", [l EXCEPT !.donation = DonationRead(donations[id])])
    /\ UNCHANGED <<verifications, posts, donations, ratings, seq, clock, users, media, chats, messages>>

\* mutant: the donor may decide on the donation as well
UpdateDonationAuthorize_DonorAllowed(p) ==
    /\ pc[p] = "ud_post"
    /\ LET l == loc[p]
           pid == l.donation.post_id
       IN  IF pid \notin RowIDs(posts)
           THEN Finish(p, "NotFound", l)
           ELSE IF l.role # "admin" /\ posts[pid].user_id # l.user
                   /\ l.donation.donor_id # l.user
           THEN Finish(p, "Forbidden", l)
           ELSE IF l.status \notin {"confirmed", "rejected"}
           THEN Finish(p, "Validation", l)
           ELSE Goto(p, "ud_status", l)
    /\ UNCHANGED <<verifications, posts, donations, ratings, seq, clock,
                   users, media, chats, messages>>

\* Handlers.UpdateDonation: h.db.GetPostByID(donation.PostID), the
\* owner-or-admin check and the validation of the request body.
UpdateDonationAuthorize(p) ==
    /\ pc[p] = "ud_post"
    /\ LET l == loc[p]
           pid == l.donation.post_id
       IN  IF pid \notin RowIDs(posts)
           THEN Finish(p, "NotFound", l)
           ELSE IF l.role # "admin" /\ posts[pid].user_id # l.user
           THEN Finish(p, "Forbidden", l)
           ELSE IF l.status \notin {"confirmed", "rejected"}
           THEN Finish(p, "Validation", l)
           ELSE Goto(p, "ud_status", l)
    /\ UNCHANGED <<verifications, posts, donations, ratings, seq, clock, users, media, chats, messages>>

\* mutant: the cascade runs whatever the new status is
UpdateDonationWrite_AlwaysCascade(p, ok) ==
    /\ pc[p] = "ud_status"
    /\ LET l == loc[p]
       IN  IF ~ok
           THEN /\ Finish(p, "Internal", l)
                /\ UNCHANGED donations
           ELSE /\ donations' = UpdateDonationStatus(l.id, l.status, l.user)
                /\ Goto(p, "ud_collected", l)
    /\ UNCHANGED <<verifications, posts, ratings, seq, clock, users, media,
                   chats, messages>>

\* Handlers.UpdateDonation: h.db.UpdateDonationStatus(...).  ok = FALSE is
\* a statement the store fails to execute.
UpdateDonationWrite(p, ok) ==
    /\ pc[p] = "ud_status"
    /\ LET l == loc[p]
       IN  IF ~ok
           THEN /\ Finish(p, "Internal", l)
                /\ UNCHANGED donations
           ELSE /\ donations' = UpdateDonationStatus(l.id, l.status, l.user)
                /\ Goto(p, IF l.status = "confirmed" THEN "ud_collected"
                                                       ELSE "ud_reply", l)
    /\ UNCHANGED <<verifications, posts, ratings, seq, clock, users, media, chats, messages>>

\* Handlers.UpdateDonation: h.db.UpdatePostCollected(donation.PostID,
\* donation.Amount); the returned error is dropped.
UpdateDonationCollect(p, ok) ==
    /\ pc[p] = "ud_collected"
    /\ LET l == loc[p]
       IN  /\ posts' = IF ok
                       THEN UpdatePostCollected(l.donation.post_id,
                                                l.donation.amount)
                       ELSE posts
           /\ Goto(p, "ud_rating", [l EXCEPT !.storeErr = @ \/ ~ok])
    /\ UNCHANGED <<verifications, donations, ratings, seq, clock, users, media, chats, messages>>

\* DB.GetOrCreateRating, the SELECT.  A failing SELECT makes
\* GetOrCreateRating return an error and the handler skips the rating.
UpdateDonationGetRating(p, ok) ==
    /\ pc[p] = "ud_rating"
    /\ LET l == loc[p]
           donor == l.donation.donor_id
       IN  IF ~ok
           THEN Goto(p, "ud_reply", [l EXCEPT !.storeErr = TRUE])
           ELSE IF donor \in RowIDs(ratings)
           THEN Goto(p, "ud_update_rating", [l EXCEPT !.rating = RatingRead(ratings[donor])])
           ELSE Goto(p, "ud_insert_rating", l)
    /\ UNCHANGED <<verifications, posts, donations, ratings, seq, clock, users, media, chats, messages>>

\* DB.GetOrCreateRating, the INSERT after sql.ErrNoRows.  ratings.user_id
\* is UNIQUE: the INSERT fails when another request created the row.
UpdateDonationInsertRating(p, ok) ==
    /\ pc[p] = "ud_insert_rating"
    /\ LET l == loc[p]
           donor == l.donation.donor_id
       IN  IF ~ok \/ RatingUserIDTaken(donor)
           THEN /\ Goto(p, "ud_reply", [l EXCEPT !.storeErr = TRUE])
                /\ UNCHANGED ratings
           ELSE /\ ratings' = ratings @@ (donor :> NewRating)
                /\ Goto(p, "ud_update_rating", [l EXCEPT !.rating = RatingRead(NewRating)])
    /\ UNCHANGED <<verifications, posts, donations, seq, clock, users, media, chats, messages>>

\* Handlers.UpdateDonation: newPoints, newTotalDonated and
\* h.db.UpdateRating(...); the returned error is dropped.
UpdateDonationUpdateRating(p, ok) ==
    /\ pc[p] = "ud_update_rating"
    /\ LET l == loc[p]
           newPoints == l.rating.points + IntOf(l.donation.amount)
           newTotalDonated == l.rating.total_donated + l.donation.amount
       IN  /\ ratings' = IF ok
                         THEN UpdateRating(l.donation.donor_id, newPoints,
                                           newTotalDonated)
                         ELSE ratings
           /\ Goto(p, "ud_reply", [l EXCEPT !.storeErr = @ \/ ~ok])
    /\ UNCHANGED <<verifications, posts, donations, seq, clock, users, media, chats, messages>>

\* Handlers.UpdateDonation: the closing GetDonationByID and WriteJSON(200).
UpdateDonationReply(p) ==
    /\ pc[p] = "ud_reply"
    /\ Finish(p, "OK", loc[p])
    /\ UNCHANGED <<verifications, posts, donations, ratings, seq, clock, users, media, chats, messages>>

\* SELECT COUNT(*) + 1 FROM ratings WHERE points > (SELECT points FROM
\* ratings WHERE user_id = $1); without a row of the user the subquery is
\* NULL, no row compares greater and the result is 1.
GetRatingPosition(userID) ==
    IF userID \in RowIDs(ratings)
    THEN Cardinality({u \in RowIDs(ratings) :
                         ratings[u].points > ratings[userID].points}) + 1
    ELSE 1

\* Handlers.GetMyRating: DB.GetOrCreateRating, the SELECT.
GetMyRatingGet(p, actor) ==
    /\ Idle(p)
    /\ IF actor \in RowIDs(ratings)
       THEN Goto(p, "gr_position", Start(p, "GetMyRating", actor))
       ELSE Goto(p, "gr_insert", Start(p, "GetMyRating", actor))
    /\ UNCHANGED <<verifications, posts, donations, ratings, seq, clock, users, media, chats, messages>>

\* Handlers.GetMyRating: DB.GetOrCreateRating, the INSERT.
GetMyRatingInsert(p) ==
    /\ pc[p] = "gr_insert"
    /\ IF RatingUserIDTaken(loc[p].user)
       THEN /\ Finish(p, "Internal", loc[p])
            /\ UNCHANGED ratings
       ELSE /\ ratings' = ratings @@ (loc[p].user :> NewRating)
            /\ Goto(p, "gr_position", loc[p])
    /\ UNCHANGED <<verifications, posts, donations, seq, clock, users, media, chats, messages>>

\* Handlers.GetMyRating: position, _ := h.db.GetRatingPosition(userID) and
\* the response.
GetMyRatingPosition(p) ==
    /\ pc[p] = "gr_position"
    /\ Finish(p, "OK", [loc[p] EXCEPT !.out = GetRatingPosition(loc[p].user)])
    /\ UNCHANGED <<verifications, posts, donations, ratings, users, media,
                   chats, messages, seq, clock>>

\* The orders in which SELECT ... FROM ratings ORDER BY points DESC may
\* return the rows: rows of equal points come in any order.
RatingOrders ==
    LET n == Cardinality(RowIDs(ratings))
    IN  {o \in [1..n -> RowIDs(ratings)] :
            /\ \A i, j \in 1..n : o[i] = o[j] => i = j
            /\ \A i, j \in 1..n : i < j => ratings[o[i]].points >= ratings[o[j]].points}

\* Handlers.GetRatings (public route): DB.GetRatings(page, limit), that is
\* ORDER BY points DESC LIMIT limit OFFSET (page-1)*limit, and for the
\* i-th row of the page (from 0) position := (page-1)*limit + i + 1.
GetRatings(p, pageQuery, limitQuery) ==
    /\ Idle(p)
    /\ \E o \in RatingOrders :
          LET page == PageParam(pageQuery)
              limit == LimitParam(limitQuery, 50)
              rows == PageOf(o, page, limit)
              position(i) == (page - 1) * limit + (i - 1) + 1
          IN  Finish(p, "OK",
                     [NoLoc EXCEPT !.op = "GetRatings",
                                   !.list = [u \in {rows[i] : i \in 1..Len(rows)} |->
                                               position(CHOOSE i \in 1..Len(rows) : rows[i] = u)],
                                   !.out = PaginationResponse(page, limit, Len(o))])
    /\ UNCHANGED <<verifications, posts, donations, ratings, users, media,
                   chats, messages, seq, clock>>

----------------------------------------------------------------------------
(* Chats *)

\* SELECT ... FROM chats WHERE post_id = $1 AND helper_id = $2
GetChatByPostAndHelper(postID, helperID) ==
    {c \in RowIDs(chats) :
        chats[c].post_id = postID /\ chats[c].helper_id = helperID}

\* mutant: the unique violation is returned unwrapped
CreateChatError_Unwrapped == "Internal"

\* DB.CreateChat: pq error 23505 becomes NewConflictError
CreateChatError == "Conflict"

\* Handlers.CreateChat: decoding, ValidateStruct (post_id required) and
\* h.db.GetPostByID(req.PostID)
CreateChatGet(p, actor, postID) ==
    /\ Idle(p)
    /\ LET l == [Start(p, "CreateChat", actor) EXCEPT !.id = postID]
       IN  IF postID = Null
           THEN Finish(p, "Validation", l)
           ELSE IF postID \notin RowIDs(posts)
           THEN Finish(p, "NotFound", l)
           ELSE Goto(p, "cc_check",
                     [l EXCEPT !.post = [user_id |-> posts[postID].user_id]])
    /\ UNCHANGED <<verifications, posts, donations, ratings, users, media,
                   chats, messages, seq, clock>>

\* Handlers.CreateChat: the existence pre-check
CreateChatCheck(p) ==
    /\ pc[p] = "cc_check"
    /\ IF GetChatByPostAndHelper(loc[p].id, loc[p].user) # {}
       THEN Finish(p, "Conflict", loc[p])
       ELSE Goto(p, "cc_insert", loc[p])
    /\ UNCHANGED <<verifications, posts, donations, ratings, users, media,
                   chats, messages, seq, clock>>

\* Handlers.CreateChat: h.db.CreateChat(req.PostID, userID, post.UserID).
\* UNIQUE(post_id, helper_id) and the foreign key on posts are checked by
\* the store; a foreign-key violation is no *AppError.
CreateChatInsert(p) ==
    /\ pc[p] = "cc_insert"
    /\ LET l == loc[p]
       IN  IF GetChatByPostAndHelper(l.id, l.user) # {}
           THEN /\ Finish(p, CreateChatError, l)
                /\ UNCHANGED chats
           ELSE IF l.id \notin RowIDs(posts)
           THEN /\ Finish(p, "Internal", l)
                /\ UNCHANGED chats
           ELSE /\ chats' = chats @@
                    (seq.chats :> [post_id |-> l.id, helper_id |-> l.user,
                                   needy_id |-> l.post.user_id])
                /\ Finish(p, "Created", l)
    /\ seq' = [seq EXCEPT !.chats = @ + 1]
    /\ UNCHANGED <<verifications, posts, donations, ratings, users, media,
                   messages, clock>>

----------------------------------------------------------------------------
(* Messages *)

\* messages: CHECK (text IS NOT NULL OR attachment_url IS NOT NULL)
MessageCheck(row) == row.text # NoString \/ row.attachment_url # NoURL

\* Handlers.SendMessage up to the INSERT: the form, the text (an empty
\* value is no text) and the attachment part, which is absent ("none"), an
\* image of an allowed type ("image") or another file ("other").
SendMessageParse(p, actor, chatID, text, attachment) ==
    /\ Idle(p)
    /\ LET l == [Start(p, "SendMessage", actor) EXCEPT !.id = chatID,
                                                        !.out = NoURL]
       IN  IF attachment = "other"
           THEN Finish(p, "UnsupportedMedia", l)
           ELSE IF attachment = "none" /\ text = NoString
           THEN Finish(p, "Validation", l)
           ELSE Goto(p, "sm_insert",
                     [l EXCEPT !.req = [text |-> text, attachment |-> attachment]])
    /\ UNCHANGED <<verifications, posts, donations, ratings, users, media,
                   chats, messages, seq, clock>>

\* Handlers.SendMessage: h.db.CreateMessage(message).  On both branches the
\* message is inserted with the text and a NULL attachment_url; a violated
\* CHECK or foreign key comes back wrapped by fmt.Errorf.
SendMessageInsert(p) ==
    /\ pc[p] = "sm_insert"
    /\ LET l == loc[p]
           row == [chat_id |-> l.id, sender_id |-> l.user, text |-> l.req.text,
                   attachment_url |-> NoURL, is_read |-> FALSE,
                   is_edited |-> FALSE]
           created == [l EXCEPT !.created = seq.messages]
       IN  IF ~MessageCheck(row) \/ l.id \notin RowIDs(chats)
           THEN /\ Finish(p, "Internal", l)
                /\ UNCHANGED messages
           ELSE /\ messages' = messages @@ (seq.messages :> row)
                /\ IF l.req.attachment = "image"
                   THEN Goto(p, "sm_upload", created)
                   ELSE Finish(p, "Created", created)
    /\ seq' = [seq EXCEPT !.messages = @ + 1]
    /\ UNCHANGED <<verifications, posts, donations, ratings, users, media,
                   chats, clock>>

\* the Content-Type header of an attachment that passed ValidateImageFile
AttachmentContentType == <<"image", "/", "png">>

\* Handlers.SendMessage: UploadChatAttachment (ok = FALSE: the upload
\* fails); the URL is put into the response only.
SendMessageUpload(p, ok) ==
    /\ pc[p] = "sm_upload"
    /\ IF ok
       THEN Finish(p, "Created",
                   [loc[p] EXCEPT !.out =
                       GetObjectURL(MinIOConfig, BucketChatAttachments,
                           UploadChatAttachment(loc[p].id, loc[p].created,
                                                AttachmentContentType))])
       ELSE Finish(p, "Internal", loc[p])
    /\ UNCHANGED <<verifications, posts, donations, ratings, users, media,
                   chats, messages, seq, clock>>

\* UPDATE messages SET text = $1, is_edited = true WHERE id = $2
UpdateMessageText(messageID, text) ==
    [m \in RowIDs(messages) |->
        IF m = messageID
        THEN [messages[m] EXCEPT !.text = text, !.is_edited = TRUE]
        ELSE messages[m]]

\* Handlers.UpdateMessage: ValidateStruct (text required) and
\* h.db.UpdateMessage; the caller's id is read and not used.
UpdateMessage(p, actor, messageID, text) ==
    /\ Idle(p)
    /\ LET l == [Start(p, "UpdateMessage", actor) EXCEPT !.id = messageID]
       IN  IF text = NoString
           THEN /\ Finish(p, "Validation", l)
                /\ UNCHANGED messages
           ELSE /\ messages' = UpdateMessageText(messageID, text)
                /\ Finish(p, "OK", l)
    /\ UNCHANGED <<verifications, posts, donations, ratings, users, media,
                   chats, seq, clock>>

\* Handlers.DeleteMessage: h.db.DeleteMessage; the caller's id is read and
\* not used.
DeleteMessage(p, actor, messageID) ==
    /\ Idle(p)
    /\ messages' = DeleteRows(messages, {messageID})
    /\ Finish(p, "NoContent", [Start(p, "DeleteMessage", actor) EXCEPT !.id = messageID])
    /\ UNCHANGED <<verifications, posts, donations, ratings, users, media,
                   chats, seq, clock>>

\* DB.MarkMessagesAsRead: without ids every unread message of the chat,
\* with ids the messages of the chat among them
MarkMessagesAsRead(chatID, messageIDs) ==
    IF messageIDs = {}
    THEN {m \in RowIDs(messages) :
             messages[m].chat_id = chatID /\ ~messages[m].is_read}
    ELSE {m \in RowIDs(messages) :
             messages[m].chat_id = chatID /\ m \in messageIDs}

\* Handlers.MarkMessagesRead: the chat id of the path and the ids of the
\* body; the caller's id is not read.  The response carries the number of
\* rows the UPDATE affected.
MarkMessagesRead(p, actor, chatID, messageIDs) ==
    /\ Idle(p)
    /\ LET updated == MarkMessagesAsRead(chatID, messageIDs)
       IN  /\ messages' = [m \in RowIDs(messages) |->
                              IF m \in updated
                              THEN [messages[m] EXCEPT !.is_read = TRUE]
                              ELSE messages[m]]
           /\ Finish(p, "OK",
                     [Start(p, "MarkMessagesRead", actor) EXCEPT
                         !.id = chatID, !.out = Cardinality(updated)])
    /\ UNCHANGED <<verifications, posts, donations, ratings, users, media,
                   chats, seq, clock>>

\* DB.GetMessages: WHERE chat_id = $1 ORDER BY created_at DESC
MessagesOfChat(chatID) == {m \in RowIDs(messages) : messages[m].chat_id = chatID}

\* Handlers.GetMessages: the chat id of the path and the page; the caller's
\* id is not read.  DB.GetMessages reverses the page it selected.
GetMessages(p, actor, chatID, pageQuery, limitQuery) ==
    /\ Idle(p)
    /\ LET page == PageParam(pageQuery)
           limit == LimitParamCapped(limitQuery)
           rows == Reverse(Ascending(MessagesOfChat(chatID)))
       IN  Finish(p, "OK",
                  [Start(p, "GetMessages", actor) EXCEPT
                      !.id = chatID,
                      !.list = [i \in 1..Len(PageOf(rows, page, limit)) |->
                                  LET m == Reverse(PageOf(rows, page, limit))[i]
                                  IN  [id |-> m,
                                       sender_id |-> messages[m].sender_id,
                                       attachment_url |-> messages[m].attachment_url]],
                      !.out = PaginationResponse(page, limit, Len(rows))])
    /\ UNCHANGED <<verifications, posts, donations, ratings, users, media,
                   chats, messages, seq, clock>>

----------------------------------------------------------------------------
(* Time *)

Tick ==
    /\ clock < MaxClock
    /\ clock' = clock + 1
    /\ UNCHANGED <<verifications, posts, donations, ratings, seq, pc, loc, resp,
                   users, media, chats, messages>>

----------------------------------------------------------------------------
(* The service on an empty database *)

Init ==
    /\ verifications = <<>>
    /\ posts = <<>>
    /\ donations = <<>>
    /\ ratings = <<>>
    /\ users = RegisteredUsers
    /\ media = <<>>
    /\ chats = <<>>
    /\ messages = <<>>
    /\ seq = [verifications |-> 1, posts |-> 1, donations |-> 1,
              users |-> 4, media |-> 1, chats |-> 1, messages |-> 1]
    /\ clock = 1
    /\ pc = [p \in Procs |-> "idle"]
    /\ loc = [p \in Procs |-> NoLoc]
    /\ resp = [p \in Procs |-> "none"]

\* Inputs the clients send
Applicants == {2, 3}
Reviewers == {1, 2}
VerificationIDs == 1..3
ReqStatuses == {"pending", "approved", "rejected"}

Next ==
    \/ \E p \in Procs, u \in Applicants : CreateVerificationCheck(p, u)
    \/ \E p \in Procs, v \in BOOLEAN : CreateVerificationInsert(p, v)
    \/ \E p \in Procs, u \in Reviewers, i \in VerificationIDs, s \in ReqStatuses :
          UpdateVerification(p, u, i, s)
    \/ \E p \in Procs, u \in Reviewers : GetVerifications(p, u, <<>>, <<>>)
    \/ Tick

Spec == Init /\ [][Next]_vars

NextPost ==
    \/ \E p \in Procs, u \in Applicants : CreateVerificationCheck(p, u)
    \/ \E p \in Procs, v \in BOOLEAN : CreateVerificationInsert(p, v)
    \/ \E p \in Procs, u \in Reviewers, i \in VerificationIDs, s \in ReqStatuses :
          UpdateVerification(p, u, i, s)
    \/ \E p \in Procs, u \in Applicants : CreatePostCheck(p, u)
    \/ \E p \in Procs, v \in BOOLEAN : CreatePostInsert(p, v, <<>>)

SpecPost == Init /\ [][NextPost]_vars

----------------------------------------------------------------------------
(* The donation lifecycle under concurrent requests and store failures.    *)
(* The database holds two posts of two verified users: the state after     *)
(* users 2 and 3 were approved by admin 1 and each created a post.         *)

InitDon ==
    /\ verifications =
          (1 :> [user_id |-> 2, status |-> "approved",
                 reviewed_at |-> 1, reviewed_by |-> 1]) @@
          (2 :> [user_id |-> 3, status |-> "approved",
                 reviewed_at |-> 1, reviewed_by |-> 1])
    /\ posts = (1 :> NewPost(2)) @@ (2 :> NewPost(3))
    /\ donations = <<>>
    /\ ratings = <<>>
    /\ users = RegisteredUsers
    /\ media = <<>>
    /\ chats = <<>>
    /\ messages = <<>>
    /\ seq = [verifications |-> 3, posts |-> 3, donations |-> 1,
              users |-> 4, media |-> 1, chats |-> 1, messages |-> 1]
    /\ clock = 1
    /\ pc = [p \in Procs |-> "idle"]
    /\ loc = [p \in Procs |-> NoLoc]
    /\ resp = [p \in Procs |-> "none"]

\* Re-confirmation makes collected and the ratings grow without limit; the
\* model stops issuing status updates once a total passes MaxTotal.
WithinTotals ==
    /\ \A i \in RowIDs(posts) : posts[i].collected <= MaxTotal
    /\ \A u \in RowIDs(ratings) : ratings[u].total_donated <= MaxTotal

Donors == {3}
Deciders == {2}
DonAmounts == {250}
DonStatuses == {"confirmed", "rejected"}

NextDon ==
    \/ \E p \in Procs, u \in Donors, a \in DonAmounts :
          seq.donations + InFlight("cd_insert") <= MaxDonations
          /\ CreateDonation(p, u, 1, Amount(a), NoFile)
    \/ \E p \in Procs : CreateDonationInsert(p)
    \/ \E p \in Procs, u \in Deciders, i \in 1..MaxDonations, s \in DonStatuses :
          WithinTotals /\ UpdateDonationGet(p, u, i, s)
    \/ \E p \in Procs : UpdateDonationAuthorize(p)
    \/ \E p \in Procs, ok \in BOOLEAN : UpdateDonationWrite(p, ok)
    \/ \E p \in Procs, ok \in BOOLEAN : UpdateDonationCollect(p, ok)
    \/ \E p \in Procs, ok \in BOOLEAN : UpdateDonationGetRating(p, ok)
    \/ \E p \in Procs, ok \in BOOLEAN : UpdateDonationInsertRating(p, ok)
    \/ \E p \in Procs, ok \in BOOLEAN : UpdateDonationUpdateRating(p, ok)
    \/ \E p \in Procs : UpdateDonationReply(p)
    \/ \E p \in Procs, u \in Donors : GetMyRatingGet(p, u)
    \/ \E p \in Procs : GetMyRatingInsert(p)
    \/ \E p \in Procs : GetMyRatingPosition(p)

SpecDon == InitDon /\ [][NextDon]_vars

----------------------------------------------------------------------------
(* Status updates issued on pending donations only, with a store that      *)
(* executes every statement: by one request at a time (sequential) or by   *)
(* all request goroutines (racing).                                        *)

NoRequestInFlight == \A q \in Procs : Idle(q)

NextPending(PS, cap, postIDs, amounts, deciders, alone) ==
    \/ \E p \in PS, u \in Donors, i \in postIDs, a \in amounts :
          seq.donations + InFlight("cd_insert") <= cap
          /\ CreateDonation(p, u, i, Amount(a), NoFile)
    \/ \E p \in PS : CreateDonationInsert(p)
    \/ \E p \in PS, u \in deciders, i \in 1..cap, s \in DonStatuses :
          /\ i \in RowIDs(donations)
          /\ donations[i].status = "pending"
          /\ alone => NoRequestInFlight
          /\ UpdateDonationGet(p, u, i, s)
    \/ \E p \in PS : UpdateDonationAuthorize(p)
    \/ \E p \in PS : UpdateDonationWrite(p, TRUE)
    \/ \E p \in PS : UpdateDonationCollect(p, TRUE)
    \/ \E p \in PS : UpdateDonationGetRating(p, TRUE)
    \/ \E p \in PS : UpdateDonationInsertRating(p, TRUE)
    \/ \E p \in PS : UpdateDonationUpdateRating(p, TRUE)
    \/ \E p \in PS : UpdateDonationReply(p)

SeqAmounts == {1000, 2570}

NextSeq == NextPending({1}, MaxDonations + 1, {1, 2}, SeqAmounts, Users, TRUE)

SpecSeq == InitDon /\ [][NextSeq]_vars

NextRace == NextPending(Procs, MaxDonations, {1, 2}, SeqAmounts, {1, 2}, FALSE)

SpecRace == InitDon /\ [][NextRace]_vars

\* Amounts 10.00, 25.70 and 100.00
RatedAmounts == {1000, 2570, 10000}

NextRated == NextPending({1}, MaxRated, {1}, RatedAmounts, {2}, TRUE)

SpecRated == InitDon /\ [][NextRated]_vars

----------------------------------------------------------------------------
(* A confirmation about to credit a donor whose rating row holds k points: *)
(* the status was written and collected was incremented; the donor's       *)
(* earlier donations went away with their posts (ON DELETE CASCADE).       *)

LabelAmounts == {50, 100}

InitLabel ==
    \E k \in 0..MaxPoints, a \in LabelAmounts :
        /\ verifications =
              (1 :> [user_id |-> 2, status |-> "approved",
                     reviewed_at |-> 1, reviewed_by |-> 1])
        /\ posts = (1 :> [NewPost(2) EXCEPT !.collected = a])
        /\ donations =
              (1 :> [post_id |-> 1, donor_id |-> 3, amount |-> a,
                     receipt_url |-> NoURL,
                     status |-> "confirmed", confirmed_at |-> 1,
                     confirmed_by |-> 2])
        /\ ratings =
              (3 :> [points |-> k, total_donated |-> 100 * k,
                     status |-> RatingStatus(k)])
        /\ users = RegisteredUsers
        /\ media = <<>>
        /\ chats = <<>>
        /\ messages = <<>>
        /\ seq = [verifications |-> 2, posts |-> 2, donations |-> 2,
                  users |-> 4, media |-> 1, chats |-> 1, messages |-> 1]
        /\ clock = 1
        /\ pc = [p \in Procs |-> IF p = 1 THEN "ud_rating" ELSE "idle"]
        /\ loc = [p \in Procs |->
                    IF p = 1
                    THEN [NoLoc EXCEPT !.op = "UpdateDonation", !.user = 2,
                                       !.role = RoleOf(2), !.id = 1,
                                       !.status = "confirmed",
                                       !.donation = DonationRead(donations[1])]
                    ELSE NoLoc]
        /\ resp = [p \in Procs |-> "none"]

NextLabel ==
    \/ \E p \in Procs : UpdateDonationGetRating(p, TRUE)
    \/ \E p \in Procs : UpdateDonationUpdateRating(p, TRUE)
    \/ \E p \in Procs : UpdateDonationReply(p)

SpecLabel == InitLabel /\ [][NextLabel]_vars

----------------------------------------------------------------------------
(* Uniqueness: registrations, verification requests and chat creations     *)
(* racing for the same phone, user and (post, helper) pair.                 *)

\* phones sent to Register: a registered number, plain and with separators,
\* a new number, plain and with separators, and a number that is too short
RegPhones ==
    {PhoneOf(2), Separated(PhoneOf(2)), PhoneOf(4), Separated(PhoneOf(4)),
     <<"9", "9", "-", "9">>}

NextUnique ==
    \/ \E p \in Procs, ph \in RegPhones, v \in BOOLEAN :
          seq.users <= MaxUsers /\ Register(p, ph, v)
    \/ \E p \in Procs : CreateVerificationCheck(p, 1)
    \/ \E p \in Procs, v \in BOOLEAN : CreateVerificationInsert(p, v)
    \/ \E p \in Procs, i \in {0, 1} : CreateChatGet(p, 3, i)
    \/ \E p \in Procs : CreateChatCheck(p)
    \/ \E p \in Procs : CreateChatInsert(p)

SpecUnique == InitDon /\ [][NextUnique]_vars

----------------------------------------------------------------------------
(* Everything that touches a post, one request at a time: the post's owner  *)
(* (user 2) edits it, adds and removes media and decides on donations,      *)
(* user 3 donates, opens a chat and writes messages.                        *)

InitFrame ==
    /\ verifications =
          (1 :> [user_id |-> 2, status |-> "approved",
                 reviewed_at |-> 1, reviewed_by |-> 1])
    /\ posts = (1 :> NewPost(2))
    /\ donations = <<>>
    /\ ratings = <<>>
    /\ users = RegisteredUsers
    /\ media = <<>>
    /\ chats = <<>>
    /\ messages = <<>>
    /\ seq = [verifications |-> 2, posts |-> 2, donations |-> 1,
              users |-> 4, media |-> 1, chats |-> 1, messages |-> 1]
    /\ clock = 1
    /\ pc = [p \in Procs |-> "idle"]
    /\ loc = [p \in Procs |-> NoLoc]
    /\ resp = [p \in Procs |-> "none"]

\* bodies of PATCH /posts/{id}; each carries a collected key
FrameBodies ==
    {[title |-> "edited", amount |-> Null, collected |-> 7],
     [title |-> NoString, amount |-> 5000, collected |-> 0]}

NextFrame ==
    \/ CreatePostCheck(1, 2)
    \/ CreatePostInsert(1, TRUE, <<>>)
    \/ \E b \in FrameBodies : UpdatePostGet(1, 2, 1, b)
    \/ UpdatePostWrite(1)
    \/ UpdatePostReply(1)
    \/ seq.media <= MaxMedia /\ AddPostMediaGet(1, 2, 1)
    \/ AddPostMediaCount(1, TRUE)
    \/ AddPostMediaInsert(1, TRUE)
    \/ DeletePostMediaGet(1, 2, 1, 1)
    \/ DeletePostMediaExec(1)
    \/ seq.donations <= MaxDonations /\ CreateDonation(1, 3, 1, Amount(250), NoFile)
    \/ CreateDonationInsert(1)
    \/ \E s \in DonStatuses : WithinTotals /\ UpdateDonationGet(1, 2, 1, s)
    \/ UpdateDonationAuthorize(1)
    \/ UpdateDonationWrite(1, TRUE)
    \/ UpdateDonationCollect(1, TRUE)
    \/ UpdateDonationGetRating(1, TRUE)
    \/ UpdateDonationInsertRating(1, TRUE)
    \/ UpdateDonationUpdateRating(1, TRUE)
    \/ UpdateDonationReply(1)
    \/ CreateChatGet(1, 3, 1)
    \/ CreateChatCheck(1)
    \/ CreateChatInsert(1)
    \/ seq.messages <= MaxMessages /\ SendMessageParse(1, 3, 1, "hello", "none")
    \/ SendMessageInsert(1)
    \/ UpdateMessage(1, 3, 1, "edited")
    \/ DeleteMessage(1, 3, 1)

SpecFrame == InitFrame /\ [][NextFrame]_vars

----------------------------------------------------------------------------
(* Owner, admin and stranger racing on the posts: edits, deletions and      *)
(* media uploads on an existing post and on a post id that was never used. *)

OwnerPostIDs == {1, 4}

OwnerBodies == {[title |-> "edited", amount |-> Null, collected |-> Null]}

NextOwner ==
    \/ \E p \in Procs, u \in Users, i \in OwnerPostIDs, b \in OwnerBodies :
          UpdatePostGet(p, u, i, b)
    \/ \E p \in Procs : UpdatePostWrite(p)
    \/ \E p \in Procs : UpdatePostReply(p)
    \/ \E p \in Procs, u \in Users, i \in OwnerPostIDs : DeletePostGet(p, u, i)
    \/ \E p \in Procs : DeletePostExec(p)
    \/ \E p \in Procs, u \in Users, i \in OwnerPostIDs :
          seq.media <= MaxMedia /\ AddPostMediaGet(p, u, i)
    \/ \E p \in Procs, v \in BOOLEAN : AddPostMediaCount(p, v)
    \/ \E p \in Procs, ok \in BOOLEAN : AddPostMediaInsert(p, ok)

SpecOwner == InitDon /\ [][NextOwner]_vars

----------------------------------------------------------------------------
(* Chat creations racing with each other and with the deletion of the post *)

ChatHelpers == {2, 3}

NextChat ==
    \/ \E p \in Procs, u \in ChatHelpers, i \in {1, 2} :
          seq.chats + InFlight("cc_check") + InFlight("cc_insert") <= MaxChats
          /\ CreateChatGet(p, u, i)
    \/ \E p \in Procs : CreateChatCheck(p)
    \/ \E p \in Procs : CreateChatInsert(p)
    \/ \E p \in Procs : DeletePostGet(p, 2, 1)
    \/ \E p \in Procs : DeletePostExec(p)

SpecChat == InitDon /\ [][NextChat]_vars

----------------------------------------------------------------------------
(* Messages in the chat of helper 3 with the owner of post 1 *)

InitMsg ==
    /\ verifications =
          (1 :> [user_id |-> 2, status |-> "approved",
                 reviewed_at |-> 1, reviewed_by |-> 1])
    /\ posts = (1 :> NewPost(2))
    /\ donations = <<>>
    /\ ratings = <<>>
    /\ users = RegisteredUsers
    /\ media = <<>>
    /\ chats = (1 :> [post_id |-> 1, helper_id |-> 3, needy_id |-> 2])
    /\ messages = <<>>
    /\ seq = [verifications |-> 2, posts |-> 2, donations |-> 1,
              users |-> 4, media |-> 1, chats |-> 2, messages |-> 1]
    /\ clock = 1
    /\ pc = [p \in Procs |-> "idle"]
    /\ loc = [p \in Procs |-> NoLoc]
    /\ resp = [p \in Procs |-> "none"]

ChatMembers == {2, 3}
MsgTexts == {NoString, "hello"}
Attachments == {"none", "image", "other"}

NextMsg ==
    \/ \E p \in Procs, u \in ChatMembers, t \in MsgTexts, a \in Attachments :
          seq.messages + InFlight("sm_insert") <= MaxMessages
          /\ SendMessageParse(p, u, 1, t, a)
    \/ \E p \in Procs : SendMessageInsert(p)
    \/ \E p \in Procs, ok \in BOOLEAN : SendMessageUpload(p, ok)
    \/ \E p \in Procs, u \in ChatMembers, m \in 1..MaxMessages, t \in MsgTexts :
          UpdateMessage(p, u, m, t)
    \/ \E p \in Procs, u \in ChatMembers, m \in 1..MaxMessages :
          DeleteMessage(p, u, m)

SpecMsg == InitMsg /\ [][NextMsg]_vars

----------------------------------------------------------------------------
(* The leaderboard: rating rows with few distinct points, read by          *)
(* GetMyRating and by the pages of GetRatings.                             *)

RankPoints == {0, 5, 10}

RankLimits == {<<"1">>, <<"2">>, <<"5", "0">>}

InitRank ==
    \E S \in SUBSET Users : \E pts \in [S -> RankPoints] :
        /\ verifications = <<>>
        /\ posts = <<>>
        /\ donations = <<>>
        /\ ratings = [u \in S |-> [points |-> pts[u],
                                   total_donated |-> 100 * pts[u],
                                   status |-> RatingStatus(pts[u])]]
        /\ users = RegisteredUsers
        /\ media = <<>>
        /\ chats = <<>>
        /\ messages = <<>>
        /\ seq = [verifications |-> 1, posts |-> 1, donations |-> 1,
                  users |-> 4, media |-> 1, chats |-> 1, messages |-> 1]
        /\ clock = 1
        /\ pc = [p \in Procs |-> "idle"]
        /\ loc = [p \in Procs |-> NoLoc]
        /\ resp = [p \in Procs |-> "none"]

NextRank ==
    \/ \E p \in Procs, u \in Users : GetMyRatingGet(p, u)
    \/ \E p \in Procs : GetMyRatingInsert(p)
    \/ \E p \in Procs : GetMyRatingPosition(p)
    \/ \E p \in Procs, page \in {<<"1">>, <<"2">>}, limit \in RankLimits :
          GetRatings(p, page, limit)

SpecRank == InitRank /\ [][NextRank]_vars

----------------------------------------------------------------------------
(* Donations created with and without a receipt for an existing post, for  *)
(* a post id that was never used and without a post id, while the owner of *)
(* post 1 deletes it; the donations are read back.                          *)

CreatePostIDs == {Null, 1, 4}

\* amounts -10.00, 0, 0.004 and 2.50 as the form carries them
CreateAmounts == {-10000, 0, 4, 2500}

Receipts ==
    {NoFile,
     [present |-> TRUE, ext |-> ".pdf", contentType |-> <<"application", "/", "pdf">>],
     [present |-> TRUE, ext |-> ".exe", contentType |-> <<"application", "/", "octet-stream">>]}

NextCreate ==
    \/ \E p \in Procs, i \in CreatePostIDs, a \in CreateAmounts, r \in Receipts :
          seq.donations + InFlight("cd_insert") <= MaxDonations
          /\ CreateDonation(p, 3, i, a, r)
    \/ \E p \in Procs : CreateDonationInsert(p)
    \/ \E p \in Procs, ok \in BOOLEAN : CreateDonationUpload(p, ok)
    \/ \E p \in Procs, i \in 1..MaxDonations : GetDonation(p, i)
    \/ \E p \in Procs : DeletePostGet(p, 2, 1)
    \/ \E p \in Procs : DeletePostExec(p)

SpecCreate == InitDon /\ [][NextCreate]_vars

----------------------------------------------------------------------------
(* Requests to protected and admin-only routes with every kind of          *)
(* Authorization header.  The middleware makes no store call, so it runs   *)
(* in one step with the first statement of the handler behind it; the      *)
(* handler's actor is the user id of the request context.  Tokens signed   *)
(* with the secret are those Login and Register issued for (user.ID,       *)
(* user.Role).                                                              *)

\* protected.HandleFunc("/verifications", handlers.CreateVerification)
ProtectedCreateVerification(p, authHeader) ==
    LET ctx == JWTAuthMiddleware(authHeader)
    IN  IF ctx.err
        THEN Unauthorized(p)
        ELSE ctx.Role = RoleOf(ctx.UserID) /\ CreateVerificationCheck(p, ctx.UserID)

\* adminOnly.HandleFunc("/verifications/{id}", handlers.UpdateVerification)
AdminUpdateVerification(p, authHeader, id, status) ==
    LET ctx == JWTAuthMiddleware(authHeader)
    IN  IF ctx.err
        THEN Unauthorized(p)
        ELSE ctx.Role = RoleOf(ctx.UserID) /\ UpdateVerification(p, ctx.UserID, id, status)

\* adminOnly.HandleFunc("/verifications", handlers.GetVerifications)
AdminGetVerifications(p, authHeader) ==
    LET ctx == JWTAuthMiddleware(authHeader)
    IN  IF ctx.err
        THEN Unauthorized(p)
        ELSE ctx.Role = RoleOf(ctx.UserID) /\ GetVerifications(p, ctx.UserID, <<>>, <<>>)

Malformed ==
    [wellFormed |-> FALSE, alg |-> "", key |-> "", exp |-> NoExp,
     user_id |-> Null, role |-> ""]

\* token strings the clients send: issued tokens that expire at 2 and at
\* MaxClock + 1, an HS512 token without exp, a token signed with another
\* key that claims the admin role, RS256 and none tokens, and a string that
\* is no JWT
TokenStrings ==
    {GenerateToken(1, "admin", MaxClock + 1),
     GenerateToken(2, "user", MaxClock + 1),
     GenerateToken(1, "admin", 2),
     [GenerateToken(2, "user", NoExp) EXCEPT !.alg = "HS512"],
     [GenerateToken(2, "admin", MaxClock + 1) EXCEPT !.key = "guessed"],
     [GenerateToken(1, "admin", MaxClock + 1) EXCEPT !.alg = "RS256"],
     [GenerateToken(1, "admin", MaxClock + 1) EXCEPT !.alg = "none", !.key = ""],
     Malformed}

AuthHeaders ==
    {<<>>, <<"Bearer">>, <<"Bearer", " ">>}
    \cup {<<"Bearer", " ", t>> : t \in TokenStrings}
    \cup {<<"bearer", " ", GenerateToken(1, "admin", MaxClock + 1)>>,
          <<"Basic", " ", GenerateToken(1, "admin", MaxClock + 1)>>,
          <<"Bearer", " ", GenerateToken(1, "admin", MaxClock + 1), " ", "x">>}

\* one request at a time: the middleware reads the request and the clock
NextAuth ==
    \/ \E h \in AuthHeaders : ProtectedCreateVerification(1, h)
    \/ \E v \in BOOLEAN : CreateVerificationInsert(1, v)
    \/ \E h \in AuthHeaders, i \in 1..2, s \in {"approved", "rejected"} :
          AdminUpdateVerification(1, h, i, s)
    \/ \E h \in AuthHeaders : AdminGetVerifications(1, h)
    \/ Tick

SpecAuth == Init /\ [][NextAuth]_vars

----------------------------------------------------------------------------
(* The media of the posts of user 2: posts created with media files, media *)
(* added and media deleted, one request at a time.                         *)

\* the media parts of a CreatePost form: none, one file, and a file that
\* fails its checks followed by a good one
MediaForms == {<<>>, <<TRUE>>, <<FALSE, TRUE>>}

NextMedia ==
    \/ seq.media <= MaxMedia /\ CreatePostCheck(1, 2)
    \/ \E f \in MediaForms : CreatePostInsert(1, TRUE, f)
    \/ CreatePostMediaLoop(1)
    \/ \E i \in 1..MaxPosts : seq.media <= MaxMedia + 2 /\ AddPostMediaGet(1, 2, i)
    \/ \E v \in BOOLEAN : AddPostMediaCount(1, v)
    \/ \E ok \in BOOLEAN : AddPostMediaInsert(1, ok)
    \/ \E i \in 1..MaxPosts, m \in 1..(MaxMedia + 2) : DeletePostMediaGet(1, 2, i, m)
    \/ DeletePostMediaExec(1)

SpecMedia == InitFrame /\ [][NextMedia]_vars

----------------------------------------------------------------------------
(* Media of the posts of two owners: user 2 owns post 1, user 3 owns post 2 *)

MediaOwners == {2, 3}

NextDeleteMedia ==
    \/ \E u \in MediaOwners, i \in 1..MaxPosts :
          seq.media <= MaxMedia + 1 /\ AddPostMediaGet(1, u, i)
    \/ \E v \in BOOLEAN : AddPostMediaCount(1, v)
    \/ \E ok \in BOOLEAN : AddPostMediaInsert(1, ok)
    \/ \E u \in MediaOwners, i \in 1..(MaxPosts + 1), m \in 1..(MaxMedia + 2) :
          DeletePostMediaGet(1, u, i, m)
    \/ DeletePostMediaExec(1)

SpecDeleteMedia == InitDon /\ [][NextDeleteMedia]_vars

----------------------------------------------------------------------------
(* Profile photos under the storage configurations *)

\* MINIO_ENDPOINT with and without a port, among them hosts named like a
\* bucket; MINIO_USE_SSL on and off
Endpoints ==
    {<<"localhost", ":", "9000">>, <<"user-photos", ":", "9000">>,
     <<"post-media">>}

MinIOConfigs == [Endpoint : Endpoints, UseSSL : BOOLEAN]

\* the form file: the extension of its name and its Content-Type header
Photos ==
    {[ext |-> ".jpg", contentType |-> <<"image", "/", "jpeg">>],
     [ext |-> ".png", contentType |-> <<"IMAGE", "/", "PNG">>],
     [ext |-> ".webp", contentType |-> <<"application", "/", "octet-stream">>],
     [ext |-> ".exe", contentType |-> <<"image", "/", "png">>]}

PhotoUsers == {2, 3}

NextPhoto ==
    \/ \E cfg \in MinIOConfigs, u \in PhotoUsers, f \in Photos, up \in BOOLEAN :
          UploadPhoto(1, cfg, u, f, up)
    \/ \E ok \in BOOLEAN : UploadPhotoUpdate(1, ok)
    \/ \E u \in PhotoUsers : GetProfile(1, u)

SpecPhoto == Init /\ [][NextPhoto]_vars

----------------------------------------------------------------------------
(* The listings with the page and limit parameters a request can carry *)

\* absent, zero, negative, not a number, and numbers
PageQueries == {<<>>, <<"0">>, <<"-", "1">>, <<"x">>, <<"2">>}
LimitQueries ==
    {<<>>, <<"0">>, <<"-", "5">>, <<"1">>, <<"2">>, <<"1", "0", "0">>,
     <<"1", "0", "1">>}

NextList ==
    \/ \E a \in {2500} :
          seq.donations <= MaxDonations + 1
          /\ CreateDonation(1, 3, 1, Amount(a), NoFile)
    \/ CreateDonationInsert(1)
    \/ \E u \in {1, 2}, page \in PageQueries, limit \in LimitQueries :
          GetVerifications(1, u, page, limit)
    \/ \E page \in PageQueries, limit \in LimitQueries : GetPosts(1, page, limit)
    \/ \E page \in PageQueries, limit \in LimitQueries : GetDonations(1, page, limit)
    \/ \E page \in PageQueries, limit \in LimitQueries :
          GetMessages(1, 3, 1, page, limit)
    \/ \E page \in PageQueries, limit \in LimitQueries : GetRatings(1, page, limit)

SpecList == InitDon /\ [][NextList]_vars

----------------------------------------------------------------------------
(* Two pending donations of donor 3 on post 1, each confirmed once by the  *)
(* owner of the post in a request of its own, on a store that works         *)

CreditAmounts == {150, 250, 1000}
CreditCollected == {0, 525}

InitCredit ==
    \E a1, a2 \in CreditAmounts, c \in CreditCollected, rated \in BOOLEAN :
        /\ verifications =
              (1 :> [user_id |-> 2, status |-> "approved",
                     reviewed_at |-> 1, reviewed_by |-> 1])
        /\ posts = (1 :> [NewPost(2) EXCEPT !.collected = c])
        /\ donations =
              [d \in {1, 2} |->
                  [post_id |-> 1, donor_id |-> 3,
                   amount |-> IF d = 1 THEN a1 ELSE a2,
                   receipt_url |-> NoURL, status |-> "pending",
                   confirmed_at |-> Null, confirmed_by |-> Null]]
        /\ ratings = IF rated THEN (3 :> NewRating) ELSE <<>>
        /\ users = RegisteredUsers
        /\ media = <<>>
        /\ chats = <<>>
        /\ messages = <<>>
        /\ seq = [verifications |-> 2, posts |-> 2, donations |-> 3,
                  users |-> 4, media |-> 1, chats |-> 1, messages |-> 1]
        /\ clock = 1
        /\ pc = [p \in Procs |-> "idle"]
        /\ loc = [p \in Procs |-> NoLoc]
        /\ resp = [p \in Procs |-> "none"]

\* request p confirms donation p
NextCredit ==
    \/ \E p \in Procs : pc[p] = "idle" /\ UpdateDonationGet(p, 2, p, "confirmed")
    \/ \E p \in Procs : UpdateDonationAuthorize(p)
    \/ \E p \in Procs : UpdateDonationWrite(p, TRUE)
    \/ \E p \in Procs : UpdateDonationCollect(p, TRUE)
    \/ \E p \in Procs : UpdateDonationGetRating(p, TRUE)
    \/ \E p \in Procs : UpdateDonationInsertRating(p, TRUE)
    \/ \E p \in Procs : UpdateDonationUpdateRating(p, TRUE)
    \/ \E p \in Procs : UpdateDonationReply(p)

SpecCredit == InitCredit /\ [][NextCredit]_vars

----------------------------------------------------------------------------
(* The chat of helper 3 with the owner 2 of post 1, used by its two        *)
(* participants and by user 1, who is not one of them                      *)

ReadTexts == {"hello"}
ReadIDs == {{}, {1}, {1, 2}}

NextRead ==
    \/ \E u \in Users, c \in {1, 2}, t \in ReadTexts :
          seq.messages <= MaxMessages + 1 /\ SendMessageParse(1, u, c, t, "none")
    \/ SendMessageInsert(1)
    \/ \E u \in Users, c \in {1, 2}, page \in {<<>>, <<"2">>}, limit \in {<<>>, <<"1">>} :
          GetMessages(1, u, c, page, limit)
    \/ \E u \in Users, c \in {1, 2}, ids \in ReadIDs : MarkMessagesRead(1, u, c, ids)

SpecRead == InitMsg /\ [][NextRead]_vars

----------------------------------------------------------------------------
(* Request 1 creates messages in chat 1 and donations for post 1, with and *)
(* without a file; request 2 reads them back                               *)

EchoReceipts ==
    {NoFile, [present |-> TRUE, ext |-> ".pdf",
              contentType |-> <<"application", "/", "pdf">>]}

NextEcho ==
    \/ \E u \in ChatMembers, t \in MsgTexts, a \in {"none", "image"} :
          seq.messages <= MaxMessages + 1 /\ SendMessageParse(1, u, 1, t, a)
    \/ SendMessageInsert(1)
    \/ \E ok \in BOOLEAN : SendMessageUpload(1, ok)
    \/ \E r \in EchoReceipts :
          seq.donations <= MaxDonations /\ CreateDonation(1, 3, 1, Amount(250), r)
    \/ CreateDonationInsert(1)
    \/ \E ok \in BOOLEAN : CreateDonationUpload(1, ok)
    \/ \E u \in ChatMembers : GetMessages(2, u, 1, <<>>, <<>>)
    \/ \E i \in 1..MaxDonations : GetDonation(2, i)

SpecEcho == InitMsg /\ [][NextEcho]_vars

----------------------------------------------------------------------------
(* Properties *)

RECURSIVE SumAmount(_)
SumAmount(S) ==
    IF S = {} THEN 0
    ELSE LET d == CHOOSE x \in S : TRUE
         IN  donations[d].amount + SumAmount(S \ {d})

\* whole currency units of each donation, added up
RECURSIVE SumWholeUnits(_)
SumWholeUnits(S) ==
    IF S = {} THEN 0
    ELSE LET d == CHOOSE x \in S : TRUE
         IN  (donations[d].amount \div 100) + SumWholeUnits(S \ {d})

ConfirmedOnPost(i) ==
    {d \in DOMAIN donations :
        donations[d].status = "confirmed" /\ donations[d].post_id = i}

ConfirmedOfDonor(u) ==
    {d \in DOMAIN donations :
        donations[d].status = "confirmed" /\ donations[d].donor_id = u}

\* request goroutine p takes a step that begins a request of kind op
Begins(p, op) ==
    /\ pc[p] \in {"idle", "done"}
    /\ <<pc[p], loc[p], resp[p]>> # <<pc'[p], loc'[p], resp'[p]>>
    /\ loc'[p].op = op

\* request goroutine p executes the statement labelled at
Executes(p, at) == pc[p] = at /\ pc'[p] # at

\* the threshold table of the rating labels
LabelTable(points) ==
    CASE points < 5 -> ""
      [] points >= 5 /\ points <= 500 -> "Friend of the Platform"
      [] points >= 501 /\ points <= 2500 -> "Keeper of Hope"
      [] points >= 2501 /\ points <= 5500 -> "Benefactor"
      [] points >= 5501 -> "Flaming Heart"

\* C1: when all request goroutines confirm the same pending donation
\* concurrently, exactly one of them succeeds, the others get Conflict, and
\* the post's collected went up by the donation's amount once.
C1_ExactlyOneConfirmationSucceeds ==
    \A d \in DOMAIN donations :
        LET R == {p \in Procs :
                    /\ pc[p] = "done"
                    /\ loc[p].op = "UpdateDonation"
                    /\ loc[p].id = d
                    /\ loc[p].status = "confirmed"
                    /\ resp[p] # "Forbidden"}
        IN  Cardinality(R) >= 2 /\ NoRequestInFlight =>
              /\ Cardinality({p \in R : resp[p] = "OK"}) = 1
              /\ \A p \in R : resp[p] \in {"OK", "Conflict"}
              /\ posts[donations[d].post_id].collected =
                    SumAmount(ConfirmedOnPost(donations[d].post_id))

\* C2: a donation's status changes only pending -> confirmed or
\* pending -> rejected; an authorized status update of a donation that is
\* no longer pending answers Conflict and changes neither the donation,
\* nor any collected amount, nor any rating.
C2_DonationStatusOnlyFromPending ==
    [][ /\ \A d \in DOMAIN donations :
              donations'[d].status # donations[d].status =>
                  /\ donations[d].status = "pending"
                  /\ donations'[d].status \in {"confirmed", "rejected"}
        /\ \A p \in Procs :
              (Executes(p, "ud_status") /\ donations[loc[p].id].status # "pending")
                  => /\ pc'[p] = "done"
                     /\ resp'[p] = "Conflict"
                     /\ UNCHANGED <<donations, posts, ratings>>
      ]_vars

\* C3: a single authorized confirmation of a pending donation, running
\* alone on a store that works, leaves the donation confirmed and adds the
\* donation's amount to the collected of the donation's post and of no
\* other post.
C3_SingleConfirmationAddsAmount ==
    [][ \A p \in Procs :
          /\ Executes(p, "ud_collected") =>
                LET d == donations[loc[p].id]
                IN  /\ d.status = "confirmed"
                    /\ posts' = [posts EXCEPT
                                   ![d.post_id].collected = @ + d.amount]
          /\ (Executes(p, "ud_reply") /\ loc[p].status = "confirmed") =>
                /\ resp'[p] = "OK"
                /\ donations[loc[p].id].status = "confirmed"
                /\ \A i \in DOMAIN posts :
                      posts[i].collected = SumAmount(ConfirmedOnPost(i))
      ]_vars

C3_Witness ==
    \E p \in Procs :
        /\ pc[p] = "done" /\ resp[p] = "OK"
        /\ loc[p].op = "UpdateDonation" /\ loc[p].status = "confirmed"
        /\ Cardinality(ConfirmedOnPost(1)) = 2
        /\ posts[1].collected = SumAmount(ConfirmedOnPost(1))
        /\ posts[2].collected = 0

\* C4: the confirmation cascade is all-or-nothing: with no status update
\* in flight, each post's collected and each donor's rating hold exactly
\* the amounts of the confirmed donations, and a status update in which a
\* store call failed after the status was written does not answer success.
C4_CascadeAllOrNothing ==
    /\ NoRequestInFlight =>
          /\ \A i \in DOMAIN posts :
                posts[i].collected = SumAmount(ConfirmedOnPost(i))
          /\ \A u \in Users :
                IF u \in DOMAIN ratings
                THEN ratings[u].total_donated = SumAmount(ConfirmedOfDonor(u))
                ELSE ConfirmedOfDonor(u) = {}
    /\ \A p \in Procs :
          (pc[p] = "done" /\ loc[p].op = "UpdateDonation" /\ loc[p].storeErr)
              => resp[p] # "OK"

\* C5: after confirming a donor's pending donations one after another the
\* donor's points are the sum of the whole currency units of each donation
\* and total_donated is the sum of the amounts.
C5_PointsAreSumOfFloors ==
    NoRequestInFlight =>
        \A u \in Donors :
            IF ConfirmedOfDonor(u) = {}
            THEN u \notin DOMAIN ratings
            ELSE /\ u \in DOMAIN ratings
                 /\ ratings[u].points = SumWholeUnits(ConfirmedOfDonor(u))
                 /\ ratings[u].total_donated = SumAmount(ConfirmedOfDonor(u))

\* amounts 10, 25.7 and 100 confirmed: 135 points, 135.70 donated
C5_Witness ==
    /\ NoRequestInFlight
    /\ {donations[d].amount : d \in ConfirmedOfDonor(3)} = {1000, 2570, 10000}
    /\ Cardinality(ConfirmedOfDonor(3)) = 3
    /\ ratings[3].points = 135
    /\ ratings[3].total_donated = 13570

\* C6: the label UpdateRating writes for p points is the one of the
\* threshold table: none below 5, then the tiers starting at 5, 501, 2501
\* and 5501.
C6_LabelFollowsThresholds ==
    [][ \A p \in Procs :
          Executes(p, "ud_update_rating") =>
              LET u == loc[p].donation.donor_id
                  newPoints == loc[p].rating.points
                                  + (loc[p].donation.amount \div 100)
              IN  /\ ratings'[u].points = newPoints
                  /\ ratings'[u].status = LabelTable(newPoints)
      ]_vars

C6_Witness ==
    /\ pc[1] = "ud_reply"
    /\ loc[1].rating.points = 5500
    /\ ratings[3].points = 5501
    /\ ratings[3].status = "Flaming Heart"

\* C7: every rating row's label is the threshold-table label of the row's
\* points, whatever the interleaving of lazy creations and confirmations.
C7_LabelMatchesPoints ==
    \A u \in DOMAIN ratings : ratings[u].status = LabelTable(ratings[u].points)

C7_Witness ==
    /\ \E p \in Procs :
          pc[p] = "done" /\ loc[p].op = "GetMyRating" /\ resp[p] = "OK"
    /\ \E q \in Procs : pc[q] = "ud_reply" /\ loc[q].status = "confirmed"
    /\ \E u \in DOMAIN ratings :
          ratings[u].points >= 5 /\ ratings[u].status = "Friend of the Platform"

\* C8: a verification goes pending -> approved or pending -> rejected
\* only, and an approved or rejected verification keeps its status, its
\* reviewer and its review time whatever UpdateVerification is issued.
C8_ReviewedVerificationIsTerminal ==
    [][ \A i \in DOMAIN verifications :
          /\ verifications[i].status \in {"approved", "rejected"} =>
                verifications'[i] = verifications[i]
          /\ verifications'[i].status # verifications[i].status =>
                /\ verifications[i].status = "pending"
                /\ verifications'[i].status \in {"approved", "rejected"}
      ]_vars

C10_OneVerificationPerUser ==
    /\ [](\A i, j \in DOMAIN verifications :
            verifications[i].user_id = verifications[j].user_id => i = j)
    /\ [][ \A p \in Procs :
             (/\ Begins(p, "CreateVerification")
              /\ \E i \in DOMAIN verifications :
                    verifications[i].user_id = loc'[p].user)
                => /\ pc'[p] = "done"
                   /\ resp'[p] = "Conflict"
                   /\ verifications' = verifications
         ]_vars

C10_Witness ==
    /\ \E p \in Procs :
          /\ pc[p] = "done" /\ loc[p].op = "CreateVerification"
          /\ resp[p] = "Conflict"
          /\ \E i \in DOMAIN verifications :
                /\ verifications[i].user_id = loc[p].user
                /\ verifications[i].status = "rejected"
    /\ Cardinality(DOMAIN verifications) = 2

\* C11: every uniqueness violation is answered with Conflict: a Register,
\* a CreateVerification or a CreateChat request that meets an existing
\* phone, verification or (post, helper) pair, at the pre-check or at the
\* insert, ends with Conflict and never with Internal.
C11_UniquenessViolationIsConflict ==
    [][ \A p \in Procs :
          /\ (Begins(p, "Register") /\ pc'[p] = "done" /\ resp'[p] # "Validation"
                  /\ users' = users)
                => resp'[p] = "Conflict"
          /\ (Executes(p, "cv_insert")
                  /\ \E i \in DOMAIN verifications :
                        verifications[i].user_id = loc[p].user)
                => resp'[p] \in {"Conflict", "Validation"}
          /\ (Executes(p, "cc_insert")
                  /\ \E c \in DOMAIN chats :
                        /\ chats[c].post_id = loc[p].id
                        /\ chats[c].helper_id = loc[p].user)
                => resp'[p] = "Conflict"
      ]_vars

\* C12: an UpdateVerification or GetVerifications request whose token role
\* is not admin answers Forbidden whatever its path and body, and changes
\* no verification; a verification changes only by an UpdateVerification
\* request whose token role is admin, and then carries that admin's id as
\* its reviewer.
C12_OnlyAdminReviews ==
    [][ /\ \A p \in Procs :
              ((Begins(p, "UpdateVerification") \/ Begins(p, "GetVerifications"))
                  /\ RoleOf(loc'[p].user) # "admin")
                => /\ pc'[p] = "done"
                   /\ resp'[p] = "Forbidden"
                   /\ verifications' = verifications
        /\ \A i \in DOMAIN verifications :
              verifications'[i] # verifications[i] =>
                  \E p \in Procs :
                      /\ Idle(p) /\ pc'[p] = "done"
                      /\ loc'[p].op = "UpdateVerification"
                      /\ RoleOf(loc'[p].user) = "admin"
                      /\ resp'[p] = "OK"
                      /\ verifications'[i].reviewed_by = loc'[p].user
                      /\ verifications'[i].reviewed_at = clock
      ]_vars

C12_Witness ==
    \E p, q \in Procs :
        /\ pc[p] = "done" /\ loc[p].op = "UpdateVerification"
        /\ resp[p] = "OK" /\ loc[p].user = 1
        /\ pc[q] = "done" /\ loc[q].op = "UpdateVerification"
        /\ resp[q] = "Forbidden" /\ loc[q].user = 2
        /\ \E i \in DOMAIN verifications :
              /\ verifications[i].status = "approved"
              /\ verifications[i].reviewed_by = 1
              /\ verifications[i].reviewed_at = 2

\* the statements of UpdateDonation that follow the authorization check
DecisionSteps == {"ud_status", "ud_collected", "ud_rating", "ud_insert_rating",
                  "ud_update_rating"}

\* C13: an UpdateDonation request of actor X on a donation of post P passes
\* the authorization check only if X's role is admin or X owns P; any other
\* actor, the donor included, gets Forbidden, and the donation, every
\* collected amount and every rating stay as they are; whatever changes
\* them is a statement of a request by an admin or by the post's owner.
C13_OnlyOwnerOrAdminDecides ==
    [][ /\ \A p \in Procs :
              Executes(p, "ud_post") =>
                  LET P == posts[loc[p].donation.post_id]
                  IN  IF RoleOf(loc[p].user) = "admin" \/ P.user_id = loc[p].user
                      THEN pc'[p] = "ud_status"
                      ELSE /\ pc'[p] = "done"
                           /\ resp'[p] = "Forbidden"
                           /\ UNCHANGED <<donations, posts, ratings>>
        /\ (\/ \E d \in DOMAIN donations : donations'[d] # donations[d]
            \/ posts' # posts
            \/ ratings' # ratings)
              => \E p \in Procs :
                    /\ pc[p] \in DecisionSteps
                    /\ pc'[p] # pc[p]
                    /\ \/ RoleOf(loc[p].user) = "admin"
                       \/ posts[donations[loc[p].id].post_id].user_id = loc[p].user
      ]_vars

C13_Witness ==
    \E p \in Procs :
        /\ pc[p] = "done" /\ loc[p].op = "UpdateDonation"
        /\ resp[p] = "Forbidden" /\ loc[p].user = 3
        /\ loc[p].id \in DOMAIN donations
        /\ donations[loc[p].id].donor_id = 3
        /\ donations[loc[p].id].post_id = 1
        /\ donations[loc[p].id].status = "pending"
        /\ \E d \in DOMAIN donations :
              donations[d].status = "confirmed" /\ donations[d].confirmed_by = 1

\* C14: an authorized UpdateDonation request with status rejected only
\* stamps the donation (status, decision time, deciding actor): none of its
\* statements changes a collected amount or a rating or creates a rating
\* row, and it answers success after the stamp.
C14_RejectionOnlyStamps ==
    [][ \A p \in Procs :
          (/\ loc[p].op = "UpdateDonation"
           /\ loc[p].status = "rejected"
           /\ pc[p] \in DecisionSteps \cup {"ud_reply"}
           /\ pc'[p] # pc[p])
            => /\ posts' = posts
               /\ ratings' = ratings
               /\ pc[p] \in {"ud_status", "ud_reply"}
               /\ pc[p] = "ud_status" =>
                     /\ pc'[p] = "ud_reply"
                     /\ donations' =
                           [donations EXCEPT ![loc[p].id] =
                               [@ EXCEPT !.status = "rejected",
                                         !.confirmed_at = clock,
                                         !.confirmed_by = loc[p].user]]
               /\ pc[p] = "ud_reply" =>
                     /\ resp'[p] = "OK"
                     /\ donations' = donations
      ]_vars

C14_Witness ==
    \E p \in Procs :
        /\ pc[p] = "done" /\ loc[p].op = "UpdateDonation" /\ resp[p] = "OK"
        /\ loc[p].status = "rejected"
        /\ donations[loc[p].id].status = "rejected"
        /\ donations[loc[p].id].confirmed_by = loc[p].user
        /\ \A i \in DOMAIN posts : posts[i].collected = 0
        /\ DOMAIN ratings = {}

\* C15: a new post has collected 0; the collected of an existing post never
\* decreases, and it changes only in the confirmation step of an
\* UpdateDonation on a donation of that post: UpdatePost, whatever its body
\* carries, CreateDonation, AddPostMedia, DeletePostMedia, CreateChat and
\* the message operations leave it as it is.
C15_CollectedOnlyByConfirmation ==
    [][ \A i \in DOMAIN posts' :
          IF i \in DOMAIN posts
          THEN /\ posts'[i].collected >= posts[i].collected
               /\ posts'[i].collected # posts[i].collected =>
                     \E p \in Procs :
                         /\ Executes(p, "ud_collected")
                         /\ loc[p].status = "confirmed"
                         /\ loc[p].donation.post_id = i
          ELSE posts'[i].collected = 0
      ]_vars

C15_Witness ==
    /\ pc[1] = "done" /\ loc[1].op = "UpdatePost" /\ resp[1] = "OK"
    /\ posts[1].title = "edited" /\ posts[1].amount = 5000
    /\ posts[1].collected = 250
    /\ 2 \in DOMAIN posts /\ posts[2].collected = 0
    /\ DOMAIN media # {} /\ DOMAIN chats # {}
    /\ \E m \in DOMAIN messages : messages[m].is_edited

\* the rows of post_media that belong to post i
MediaOfPost(table, i) == {<<m, table[m]>> : m \in {x \in DOMAIN table : table[x].post_id = i}}

OwnerOps == {"UpdatePost", "DeletePost", "AddPostMedia"}

\* C16: an UpdatePost, DeletePost or AddPostMedia request on a post id that
\* does not exist answers NotFound; on post P by a user who is not P's
\* owner, an admin included, it answers Forbidden; in both cases posts and
\* media stay as they are.  A post is edited or deleted and its media grow
\* only by a statement of a request of the post's owner.
C16_OnlyOwnerChangesPost ==
    [][ /\ \A p \in Procs :
              (\E op \in OwnerOps : Begins(p, op)) =>
                  LET i == loc'[p].id
                      u == loc'[p].user
                  IN  IF i \notin DOMAIN posts
                      THEN /\ pc'[p] = "done" /\ resp'[p] = "NotFound"
                           /\ UNCHANGED <<posts, media>>
                      ELSE posts[i].user_id # u =>
                              /\ pc'[p] = "done" /\ resp'[p] = "Forbidden"
                              /\ UNCHANGED <<posts, media>>
        /\ \A i \in DOMAIN posts :
              (\/ i \notin DOMAIN posts'
               \/ (i \in DOMAIN posts' /\ posts'[i] # posts[i])
               \/ MediaOfPost(media', i) # MediaOfPost(media, i))
                => \E p \in Procs :
                      /\ loc[p].op \in OwnerOps
                      /\ pc'[p] # pc[p]
                      /\ loc[p].id = i
                      /\ loc[p].user = posts[i].user_id
      ]_vars

C16_Witness ==
    \E p, q \in Procs :
        /\ pc[p] = "done" /\ loc[p].op = "DeletePost" /\ resp[p] = "Forbidden"
        /\ loc[p].user = 1 /\ loc[p].id = 1
        /\ pc[q] = "done" /\ loc[q].op = "AddPostMedia" /\ resp[q] = "NotFound"
        /\ 1 \in DOMAIN posts /\ posts[1].title = "edited"
        /\ MediaOfPost(media, 1) # {}

\* the chats of helper u on post i
ChatsOfPair(i, u) ==
    {c \in DOMAIN chats : chats[c].post_id = i /\ chats[c].helper_id = u}

\* C17: there is never more than one chat per (post, helper) pair; a
\* CreateChat request for an existing post answers Conflict, at the
\* pre-check or at the insert, when the requester has a chat on the post,
\* and otherwise 201 with one new chat whose helper is the requester and
\* whose needy party is the post's owner; of requests by the same user for
\* the same post, racing or not, only one gets 201; chats appear in no
\* other way.
C17_OneChatPerPostAndHelper ==
    /\ [](\A i \in 1..MaxPosts, u \in Users : Cardinality(ChatsOfPair(i, u)) <= 1)
    /\ [](\A p, q \in Procs :
            (/\ p # q
             /\ pc[p] = "done" /\ loc[p].op = "CreateChat"
             /\ pc[q] = "done" /\ loc[q].op = "CreateChat"
             /\ loc[p].user = loc[q].user /\ loc[p].id = loc[q].id
             /\ loc[p].id \in DOMAIN posts)
              => ~(resp[p] = "Created" /\ resp[q] = "Created"))
    /\ [][ /\ \A p \in Procs :
               /\ (Executes(p, "cc_check") /\ ChatsOfPair(loc[p].id, loc[p].user) # {})
                     => resp'[p] = "Conflict" /\ chats' = chats
               /\ (Executes(p, "cc_insert") /\ loc[p].id \in DOMAIN posts) =>
                     IF ChatsOfPair(loc[p].id, loc[p].user) # {}
                     THEN resp'[p] = "Conflict" /\ chats' = chats
                     ELSE /\ resp'[p] = "Created"
                          /\ \E c \in DOMAIN chats' \ DOMAIN chats :
                                chats' = chats @@
                                   (c :> [post_id |-> loc[p].id,
                                          helper_id |-> loc[p].user,
                                          needy_id |-> posts[loc[p].id].user_id])
           /\ DOMAIN chats' \ DOMAIN chats # {} =>
                 \E p \in Procs : Executes(p, "cc_insert")
          ]_vars

C17_Witness ==
    \E p, q \in Procs :
        /\ pc[p] = "done" /\ loc[p].op = "CreateChat" /\ resp[p] = "Created"
        /\ pc[q] = "done" /\ loc[q].op = "CreateChat" /\ resp[q] = "Conflict"
        /\ loc[p].user = 3 /\ loc[q].user = 3
        /\ loc[p].id = 1 /\ loc[q].id = 1
        /\ seq.chats = 3
        /\ \E c \in DOMAIN chats :
              chats[c] = [post_id |-> 1, helper_id |-> 3, needy_id |-> 2]

\* C18: a message is edited or deleted only by a request of its sender; an
\* UpdateMessage or DeleteMessage request of another user fails (with
\* Forbidden, or with Validation when its body is invalid) and leaves the
\* message's text, edited flag and existence as they are.
C18_OnlySenderChangesMessage ==
    [][ \A m \in DOMAIN messages :
          /\ (m \notin DOMAIN messages' \/ messages'[m] # messages[m]) =>
                \E p \in Procs :
                    /\ Idle(p) /\ pc'[p] = "done"
                    /\ loc'[p].op \in {"UpdateMessage", "DeleteMessage"}
                    /\ loc'[p].id = m
                    /\ loc'[p].user = messages[m].sender_id
          /\ \A p \in Procs :
                (/\ Begins(p, "UpdateMessage") \/ Begins(p, "DeleteMessage")
                 /\ loc'[p].id = m
                 /\ loc'[p].user # messages[m].sender_id)
                  => /\ resp'[p] \in {"Forbidden", "Validation"}
                     /\ messages' = messages
      ]_vars

\* C19: every stored message has a text or an attachment reference; a
\* SendMessage request that is turned away before the insert stores
\* nothing and is one without a text and without a valid attachment; a
\* request that carries a text, a valid attachment or both is stored in its
\* chat and, the upload working, answered with 201.
C19_MessageNeedsTextOrAttachment ==
    /\ [](\A m \in DOMAIN messages :
            messages[m].text # NoString \/ messages[m].attachment_url # NoURL)
    /\ [][ \A p \in Procs :
              /\ (Begins(p, "SendMessage") /\ pc'[p] = "done") =>
                    /\ resp'[p] \in {"Validation", "UnsupportedMedia"}
                    /\ messages' = messages
              /\ (Executes(p, "sm_insert") /\ loc[p].id \in DOMAIN chats) =>
                    /\ loc[p].req.text # NoString \/ loc[p].req.attachment = "image"
                    /\ \E m \in DOMAIN messages' \ DOMAIN messages :
                          /\ messages'[m].chat_id = loc[p].id
                          /\ messages'[m].sender_id = loc[p].user
                          /\ messages'[m].text = loc[p].req.text
                    /\ IF loc[p].req.attachment = "image"
                       THEN pc'[p] = "sm_upload"
                       ELSE resp'[p] = "Created"
          ]_vars

\* the number of rating rows with strictly more points than user u, plus 1
RankOf(u) ==
    1 + Cardinality({v \in DOMAIN ratings : ratings[v].points > ratings[u].points})

\* C20: the position GetMyRating reports for a user is 1 + the number of
\* rating rows with strictly more points (1 for the maximum, equal for
\* equal points), and the position the GetRatings listing attaches to a
\* user is that same number.
C20_PositionIsStrictlyGreaterPlusOne ==
    [][ \A p \in Procs :
          /\ Executes(p, "gr_position") => loc'[p].out = RankOf(loc[p].user)
          /\ (Idle(p) /\ pc'[p] = "done" /\ loc'[p].op = "GetRatings") =>
                \A u \in DOMAIN loc'[p].list : loc'[p].list[u] = RankOf(u)
      ]_vars

\* C21: a CreateDonation request with amount > 0 for an existing post
\* stores one donation in status pending with the requester as donor and
\* changes no collected amount and no rating; for a post id that does not
\* exist it answers NotFound and for amount <= 0 Validation, and stores no
\* donation.
C21_CreateDonationStoresPending ==
    [][ \A p \in Procs :
          /\ Begins(p, "CreateDonation") =>
                LET a == loc'[p].amount
                    i == loc'[p].id
                IN  /\ UNCHANGED <<donations, posts, ratings>>
                    /\ IF a <= 0 \/ i = Null
                       THEN pc'[p] = "done" /\ resp'[p] = "Validation"
                       ELSE IF i \notin DOMAIN posts
                       THEN pc'[p] = "done" /\ resp'[p] = "NotFound"
                       ELSE \/ pc'[p] = "cd_insert"
                            \/ pc'[p] = "done" /\ resp'[p] = "UnsupportedMedia"
          /\ (Executes(p, "cd_insert") /\ loc[p].id \in DOMAIN posts) =>
                /\ UNCHANGED <<posts, ratings>>
                /\ resp'[p] # "Internal"
                /\ \E d \in DOMAIN donations' \ DOMAIN donations :
                      /\ DOMAIN donations' = DOMAIN donations \cup {d}
                      /\ donations'[d].status = "pending"
                      /\ donations'[d].donor_id = loc[p].user
                      /\ donations'[d].post_id = loc[p].id
                      /\ \A e \in DOMAIN donations : donations'[e] = donations[e]
      ]_vars

\* the header is "Bearer <token>" with a token that is signed with an HMAC
\* algorithm and the service's secret and is not expired now
GoodHeader(h) ==
    /\ Len(h) = 3
    /\ h[1] = "Bearer" /\ h[2] = " "
    /\ h[3].wellFormed
    /\ h[3].alg \in {"HS256", "HS384", "HS512"}
    /\ h[3].key = "secret"
    /\ h[3].exp = 0 \/ h[3].exp > clock

\* the request is answered by code without any change of the store
AnsweredUnchanged(p, code) ==
    /\ pc'[p] = "done"
    /\ resp'[p] = code
    /\ UNCHANGED <<verifications, posts, donations, ratings, users, media,
                   chats, messages, seq>>

\* C22: a request to a protected route reaches the handler only with a
\* header "Bearer <token>" whose token is signed with an HMAC algorithm and
\* the secret and is not expired, and the handler then runs with exactly
\* the token's user id and role; with any other header the request is
\* answered 401 and nothing changes; on an admin-only route a good token
\* whose role is not admin is answered 403 and nothing changes.
C22_OnlyValidBearerTokenPasses ==
    [][ \A p \in {1}, h \in AuthHeaders :
          /\ ProtectedCreateVerification(p, h) =>
                IF GoodHeader(h)
                THEN /\ loc'[p].op = "CreateVerification"
                     /\ loc'[p].user = h[3].user_id
                     /\ loc'[p].role = h[3].role
                ELSE AnsweredUnchanged(p, "Unauthorized")
          /\ ((\E i \in 1..2, st \in {"approved", "rejected"} :
                    AdminUpdateVerification(p, h, i, st))
               \/ AdminGetVerifications(p, h)) =>
                IF ~GoodHeader(h)
                THEN AnsweredUnchanged(p, "Unauthorized")
                ELSE IF h[3].role # "admin"
                THEN AnsweredUnchanged(p, "Forbidden")
                ELSE /\ loc'[p].op \in {"UpdateVerification", "GetVerifications"}
                     /\ loc'[p].user = h[3].user_id
                     /\ loc'[p].role = h[3].role
                     /\ resp'[p] = "OK"
      ]_vars

C22_Witness ==
    /\ clock = 2
    /\ pc[1] = "done" /\ resp[1] = "Forbidden" /\ loc[1].user = 2
    /\ loc[1].op = "UpdateVerification"
    /\ \E i \in DOMAIN verifications :
          /\ verifications[i].user_id = 1
          /\ verifications[i].status = "pending"
    /\ \E i \in DOMAIN verifications :
          /\ verifications[i].user_id = 2
          /\ verifications[i].status = "approved"
          /\ verifications[i].reviewed_by = 1
          /\ verifications[i].reviewed_at = 2

\* C23: no two media rows of a post have the same order index, whatever
\* sequence of CreatePost with media, AddPostMedia and DeletePostMedia led
\* to the state.
C23_OrderIndexUniquePerPost ==
    \A m, n \in DOMAIN media :
        (m # n /\ media[m].post_id = media[n].post_id)
            => media[m].order_index # media[n].order_index


\* C24: DeletePostMedia with path (post P, media M) deletes nothing but M,
\* and deletes M only when the caller owns P and M is a media row of P:
\* the media rows of every other post are left as they were.
C24_DeleteOnlyMediaOfOwnPost ==
    [][ DeletePostMediaExec(1) =>
          /\ loc[1].id \in RowIDs(posts)
          /\ IsPostOwner(posts[loc[1].id], loc[1].user)
          /\ \A m \in RowIDs(media) :
                media[m].post_id # loc[1].id
                    => m \in RowIDs(media') /\ media'[m] = media[m]
      ]_vars


\* /files/user-photos/<objectKey>
BackendPhotoURL(objectKey) ==
    <<"/", "files", "/">> \o BucketUserPhotos \o <<"/">> \o objectKey

\* C25: whatever the storage endpoint (with or without a port, SSL on or
\* off), the user and the content type, converting the reference that
\* UploadPhoto stored gives exactly /files/user-photos/<objectKey>, with no
\* scheme, host or port; it is what UploadPhoto and GetProfile answer, and
\* converting it again returns it unchanged.
C25_StoredPhotoConvertsToBackendPath ==
    /\ (pc[1] = "done" /\ resp[1] = "OK" /\ loc[1].op = "UploadPhoto") =>
          LET stored == users[loc[1].user].photo_url
          IN  \E cfg \in MinIOConfigs, f \in Photos :
                LET objectKey == UploadUserPhoto(loc[1].user, f.contentType)
                    expected == BackendPhotoURL(objectKey)
                IN  /\ stored = GetObjectURL(cfg, BucketUserPhotos, objectKey)
                    /\ ConvertMinIOURLToBackendURL(stored) = expected
                    /\ loc[1].out = expected
                    /\ ~Contains(expected, ":")
                    /\ ConvertMinIOURLToBackendURL(expected) = expected
    /\ \A u \in RowIDs(users) :
          users[u].photo_url # <<>> =>
              \E f \in Photos :
                  LET expected == BackendPhotoURL(UploadUserPhoto(u, f.contentType))
                  IN  /\ ConvertMinIOURLToBackendURL(users[u].photo_url) = expected
                      /\ ConvertMinIOURLToBackendURL(expected) = expected
    /\ (pc[1] = "done" /\ resp[1] = "OK" /\ loc[1].op = "GetProfile") =>
          loc[1].out = ConvertMinIOURLToBackendURL(users[loc[1].user].photo_url)

\* an upload under the SSL endpoint user-photos:9000, a host named like the
\* bucket, has been stored and answered
C25_Witness ==
    /\ pc[1] = "done" /\ resp[1] = "OK" /\ loc[1].op = "UploadPhoto"
    /\ loc[1].user = 3
    /\ users[3].photo_url =
          <<"https", ":", "/", "/", "user-photos", "/", "user-photos", "/",
            "users", "/", "3", "/", "photo", ".png">>
    /\ loc[1].out =
          <<"/", "files", "/", "user-photos", "/", "users", "/", "3", "/",
            "photo", ".png">>
    /\ users[2].photo_url # <<>>


\* the least number of pages of limit rows that hold total rows
Ceil(total, limit) ==
    CHOOSE n \in 0..total : n * limit >= total /\ \A k \in 0..(n - 1) : k * limit < total

ListOps ==
    {"GetVerifications", "GetPosts", "GetDonations", "GetMessages", "GetRatings"}

\* C26: every listing (GetVerifications, GetPosts, GetDonations,
\* GetMessages, GetRatings) that answers OK has queried the store with a
\* page >= 1 and a limit between 1 and 100, whatever page and limit the
\* request carried, and reports total_pages = ceil(total / limit).
C26_PageAndLimitWithinBounds ==
    (pc[1] = "done" /\ resp[1] = "OK" /\ loc[1].op \in ListOps) =>
        /\ loc[1].out.page >= 1
        /\ loc[1].out.limit >= 1
        /\ loc[1].out.limit <= 100
        /\ loc[1].out.total_pages = Ceil(loc[1].out.total, loc[1].out.limit)


\* both confirmations have been answered
AllConfirmed ==
    /\ \A p \in Procs : pc[p] = "done" /\ resp[p] = "OK"
    /\ \A d \in DOMAIN donations : donations[d].status = "confirmed"

\* C27: when the confirmations of the donor's distinct pending donations,
\* each made once and interleaved in any way on a store that works, have
\* all been answered, the donor's rating holds points = the sum of the
\* whole units of the amounts and total_donated = the sum of the amounts,
\* whether or not the rating row existed before.
C27_ConcurrentCreditsAllCounted ==
    AllConfirmed =>
        /\ 3 \in DOMAIN ratings
        /\ ratings[3].points = SumWholeUnits(DOMAIN donations)
        /\ ratings[3].total_donated = SumAmount(DOMAIN donations)

\* C28: every confirmation adds the donation's amount to the collected the
\* store holds at that moment, and when the confirmations of the distinct
\* pending donations on the post, each made once and interleaved in any
\* way on a store that works, have all been answered, the post's collected
\* is its initial collected plus the sum of the amounts.
C28_ConcurrentCollectedIsSum ==
    [][ /\ \A p \in Procs :
              Executes(p, "ud_collected") =>
                  posts'[1].collected =
                      posts[1].collected + donations[loc[p].id].amount
        /\ AllConfirmed' =>
              posts'[1].collected - SumAmount(DOMAIN donations) \in CreditCollected
      ]_vars

\* both requests were past the status update before either added its
\* amount, and the post holds the initial 5.25 plus 2.50 plus 10.00
C28_Witness ==
    /\ AllConfirmed
    /\ donations[1].amount = 250 /\ donations[2].amount = 1000
    /\ posts[1].collected = 1775
    /\ 3 \in DOMAIN ratings /\ ratings[3].total_donated < 1250


\* the chat exists and the user is its helper or its needy party
IsParticipant(chatID, userID) ==
    /\ chatID \in DOMAIN chats
    /\ userID \in {chats[chatID].helper_id, chats[chatID].needy_id}

\* C29: a message is stored in a chat, the messages of a chat are listed
\* and the read flag of a chat's messages is changed only for a caller who
\* is the helper or the needy party of that existing chat, and
\* MarkMessagesRead leaves the caller's own messages unread.
C29_OnlyParticipantsUseChat ==
    [][ /\ Executes(1, "sm_insert") =>
              (messages' # messages => IsParticipant(loc[1].id, loc[1].user))
        /\ (Idle(1) /\ pc'[1] = "done" /\ loc'[1].op = "GetMessages") =>
              (IsParticipant(loc'[1].id, loc'[1].user) \/ resp'[1] # "OK")
        /\ (Idle(1) /\ pc'[1] = "done" /\ loc'[1].op = "MarkMessagesRead") =>
              \A m \in DOMAIN messages :
                  messages'[m] # messages[m] =>
                      /\ IsParticipant(loc'[1].id, loc'[1].user)
                      /\ messages[m].chat_id = loc'[1].id
                      /\ messages[m].sender_id # loc'[1].user
      ]_vars


\* request 1 has been answered 201 by the create operation op
Created(op) == pc[1] = "done" /\ resp[1] = "Created" /\ loc[1].op = op

\* request 2 has been answered 200 by the read operation op
ReadBack(op) == pc[2] = "done" /\ resp[2] = "OK" /\ loc[2].op = op

\* C30: the attachment reference in the 201 response of SendMessage is the
\* one the stored message holds and GetMessages returns for it, and the
\* receipt reference in the 201 response of CreateDonation is the one the
\* stored donation holds and GetDonation returns for it.
C30_ResponseEqualsStoredRecord ==
    /\ Created("SendMessage") =>
          /\ messages[loc[1].created].attachment_url = loc[1].out
          /\ ReadBack("GetMessages") =>
                \A i \in 1..Len(loc[2].list) :
                    loc[2].list[i].id = loc[1].created
                        => loc[2].list[i].attachment_url = loc[1].out
    /\ Created("CreateDonation") =>
          /\ donations[loc[1].created].receipt_url = loc[1].out
          /\ (ReadBack("GetDonation") /\ loc[2].id = loc[1].created)
                => loc[2].out = loc[1].out

====
